---- MODULE Spec2Model ----
(***************************************************************************)
(* A model of panflute's element/container core (containers.py, base.py,   *)
(* elements.py): parent-tracking containers, the tree walk and the JSON    *)
(* codec.  Python objects are named by strings; an operation that raises   *)
(* is an outcome record whose err field names the exception.               *)
(***************************************************************************)
EXTENDS Integers, Sequences, FiniteSets, TLC

\* ------------------------------------------------------------------------
\* Bounds of the model
\* ------------------------------------------------------------------------

\* longest list an ordered container is grown to
MaxLen == 3

\* longest argument sequence handed to a constructor, extend or a setter
MaxArgs == 2

\* ------------------------------------------------------------------------
\* Python values
\* ------------------------------------------------------------------------

None == "None"

\* native values that are not elements (bool, int, str)
BuiltinScalars == {"bool:True", "int:1", "str:x"}

BoundedSeq(S, n) == UNION {[1..k -> S] : k \in 0..n}

Range(s) == {s[i] : i \in 1..Len(s)}

\* ------------------------------------------------------------------------
\* Class table: direct base classes of the element classes
\* ------------------------------------------------------------------------

ClassBases ==
    [ Element |-> {}, Inline |-> {"Element"}, InlineText |-> {"Inline"},
      Block |-> {"Element"}, BlockText |-> {"Block"},
      InlineBlock |-> {"Inline", "Block"}, MetaValue |-> {"Element"},
      Doc |-> {"Element"}, Null |-> {"Block"}, Space |-> {"Inline"},
      Plain |-> {"Block"}, Para |-> {"Block"}, BlockQuote |-> {"Block"},
      Emph |-> {"Inline"}, Strong |-> {"Inline"}, Note |-> {"InlineBlock"},
      Header |-> {"Block"}, Div |-> {"Block"}, Span |-> {"InlineBlock"},
      Quoted |-> {"Inline"}, Cite |-> {"Inline"}, Citation |-> {"Element"},
      Link |-> {"InlineBlock"}, Image |-> {"InlineBlock"}, Str |-> {"Inline"},
      CodeBlock |-> {"Block"}, RawBlock |-> {"BlockText"},
      Code |-> {"BlockText"}, Math |-> {"InlineText"},
      RawInline |-> {"InlineText"}, ListItem |-> {"Block"},
      BulletList |-> {"Block"}, OrderedList |-> {"Block"},
      Definition |-> {"Block"}, DefinitionItem |-> {"Element"},
      DefinitionList |-> {"Block"}, TableCell |-> {"Block"},
      TableRow |-> {"Block"}, Table |-> {"Block"},
      MetaList |-> {"MetaValue"}, MetaMap |-> {"MetaValue"},
      MetaInlines |-> {"MetaValue"}, MetaBlocks |-> {"MetaValue"},
      MetaString |-> {"MetaValue"}, MetaBool |-> {"MetaValue"},
      HorizontalRule |-> {"Block"}, SoftBreak |-> {"Inline"},
      LineBreak |-> {"Inline"}, Strikeout |-> {"Inline"},
      Superscript |-> {"Inline"}, Subscript |-> {"Inline"},
      SmallCaps |-> {"Inline"}, LineItem |-> {"Block"},
      LineBlock |-> {"Block"} ]

RECURSIVE Superclasses(_)
Superclasses(c) == {c} \cup UNION {Superclasses(b) : b \in ClassBases[c]}

MroTable == [c \in DOMAIN ClassBases |-> Superclasses(c)]

\* the class and all its superclasses
Mro(c) == MroTable[c]

\* Element.child_type as overridden per class: the allowed kind-set of .content
child_type(cls) ==
    CASE cls \in {"Div", "ListItem", "Definition", "TableCell", "Note",
                  "MetaBlocks", "Doc"} -> "Block"
      [] cls = "MetaInlines" -> "Inline"
      [] cls = "MetaList" -> "MetaValue"
      [] cls \in {"BulletList", "OrderedList"} -> "ListItem"
      [] cls = "DefinitionList" -> "DefinitionItem"
      [] cls = "TableRow" -> "TableCell"
      [] cls = "Table" -> "TableRow"
      [] cls = "LineBlock" -> "LineItem"
      [] "Inline" \in Mro(cls) -> "Inline"
      [] "Block" \in Mro(cls) -> "Inline"
      [] OTHER -> None

\* ------------------------------------------------------------------------
\* Python values as the codec sees them: what to_json returns and what
\* from_json receives. Every value has the same fields: j its type, s a str
\* or a dict key, n an int, l the items of a list or dict, e an element.
\* ------------------------------------------------------------------------

JNone == [n |-> 0, s |-> "", j |-> "None", l |-> <<>>, e |-> <<>>]

JStr(text) == [n |-> 0, s |-> text, j |-> "str", l |-> <<>>, e |-> <<>>]

JInt(i) == [n |-> i, s |-> "", j |-> "int", l |-> <<>>, e |-> <<>>]

\* the float 0.0 (a table's default column width)
JFloat == [n |-> 0, s |-> "0.0", j |-> "float", l |-> <<>>, e |-> <<>>]

JBool(b) ==
    [n |-> 0, s |-> IF b THEN "True" ELSE "False", j |-> "bool", l |-> <<>>,
     e |-> <<>>]

\* a list (a tuple is written to JSON as a list too)
JList(items) == [n |-> 0, s |-> "", j |-> "list", l |-> items, e |-> <<>>]

\* one (key, value) item of a dict
JItem(key, value) ==
    [n |-> 0, s |-> key, j |-> "item", l |-> <<value>>, e |-> <<>>]

\* an OrderedDict: its items in insertion order
JDict(items) == [n |-> 0, s |-> "", j |-> "dict", l |-> items, e |-> <<>>]

\* an element: its class, its scalar fields f and its child containers k
Node(c, f, k) == [k |-> k, cls |-> c, f |-> f]

JElem(node) == [n |-> 0, s |-> "", j |-> "elem", l |-> <<>>, e |-> <<node>>]

\* return / raise of a constructor or of a decoding step
Returned(value) == [err |-> "ok", val |-> value]

Raised(exception) == [err |-> exception, val |-> JNone]

\* nothing decoded yet
NotDecoded == [err |-> "none", val |-> JNone]

\* dict lookups: 'key in data', data[key] and data.get(key)
HasKey(d, key) == \E i \in 1..Len(d.l) : d.l[i].s = key

Get(d, key) ==
    IF HasKey(d, key)
    THEN d.l[CHOOSE i \in 1..Len(d.l) : d.l[i].s = key].l[1]
    ELSE JNone

\* OrderedDict(pairs): a repeated key keeps its first position and gets the
\* later value
RECURSIVE OrderedDict(_)
OrderedDict(items) ==
    IF items = <<>> THEN <<>>
    ELSE LET init == OrderedDict(SubSeq(items, 1, Len(items) - 1))
             it   == items[Len(items)]
         IN  IF \E i \in 1..Len(init) : init[i].s = it.s
             THEN [i \in 1..Len(init) |->
                      IF init[i].s = it.s THEN it ELSE init[i]]
             ELSE Append(init, it)

\* utils.encode_dict(tag, content)
encode_dict(tag, content) ==
    JDict(<<JItem("t", JStr(tag)), JItem("c", content)>>)

\* utils.check_group(value, group): value when it is in group, else TypeError
check_group(value, group) ==
    IF value.j = "str" /\ value.s \in group THEN Returned(value)
    ELSE Raised("TypeError")

\* utils.check_type(value, oktypes) on a codec value; oktypes is a set of
\* Python types and element classes
check_value(value, oktypes) ==
    IF \/ value.j \in oktypes
       \/ value.j = "bool" /\ "int" \in oktypes
       \/ value.j = "elem" /\ Mro(value.e[1].cls) \cap oktypes # {}
    THEN Returned(value)
    ELSE Raised("TypeError")

\* constants.py
LIST_NUMBER_STYLES ==
    {"DefaultStyle", "Example", "Decimal", "LowerRoman", "UpperRoman",
     "LowerAlpha", "UpperAlpha"}

LIST_NUMBER_DELIMITERS == {"DefaultDelim", "Period", "OneParen", "TwoParens"}

TABLE_ALIGNMENT == {"AlignLeft", "AlignRight", "AlignCenter", "AlignDefault"}

QUOTE_TYPES == {"SingleQuote", "DoubleQuote"}

CITATION_MODE == {"AuthorInText", "SuppressAuthor", "NormalCitation"}

MATH_FORMATS == {"DisplayMath", "InlineMath"}

RAW_FORMATS == {"html", "tex", "latex"}

SPECIAL_ELEMENTS ==
    LIST_NUMBER_STYLES \cup LIST_NUMBER_DELIMITERS \cup MATH_FORMATS
        \cup TABLE_ALIGNMENT \cup QUOTE_TYPES \cup CITATION_MODE

\* ------------------------------------------------------------------------
\* The heap: elements and the containers they own
\* ------------------------------------------------------------------------

VARIABLES
    cls,        \* cls[e]: class of every constructed element e
    parent,     \* parent[e]: Element.parent
    location,   \* location[e]: Element.location
    lists,      \* lists[<<owner, attr>>]: the ListContainer held in owner.attr
    dicts,      \* dicts[<<owner, attr>>]: the DictContainer held in owner.attr
    last,       \* op, exception and return value of the latest operation
    action,     \* action[e]: what the filter function returns for element e
    visited,    \* the elements action was invoked on, in order
    walked,     \* the latest walk: where it started, exception, return value
    source,     \* the element handed to to_json
    wire,       \* what to_json returned
    decoded     \* what decoding wire returned or raised

vars == <<cls, parent, location, lists, dicts, last, action, visited, walked,
          source, wire, decoded>>

walkvars == <<action, visited, walked>>

codecvars == <<source, wire, decoded>>

Heap == [cls |-> cls, parent |-> parent, location |-> location,
         lists |-> lists, dicts |-> dicts]

Made(h) == DOMAIN h.cls

ClassOfValue(h, v) == IF v \in BuiltinScalars THEN "builtin" ELSE h.cls[v]

\* isinstance(v, oktypes)
isinstance(h, v, oktypes) ==
    \/ oktypes = "object"
    \/ v \notin BuiltinScalars /\ oktypes \in Mro(h.cls[v])

\* utils.check_type: the value when it is an instance of oktypes, else TypeError
check_type(h, v, oktypes) == isinstance(h, v, oktypes)

\* outcome of an operation: exception (or "ok"), heap afterwards, return value
Outcome(e, h, r) == [err |-> e, h |-> h, ret |-> r]

\* Element.__init__: parent, location (and _content = None)
Element_init(h, e, c, p, loc) ==
    [h EXCEPT !.cls = (e :> c) @@ h.cls,
              !.parent = (e :> p) @@ h.parent,
              !.location = (e :> loc) @@ h.location]

\* ------------------------------------------------------------------------
\* containers.py: attach
\* ------------------------------------------------------------------------

\* an attach that stamps the location and forgets the parent
attach_skips_parent(h, element, p, loc) ==
    IF element \notin BuiltinScalars
    THEN [h EXCEPT !.location[element] = loc]
    ELSE h

attach(h, element, p, loc) ==
    IF element \notin BuiltinScalars
    THEN [h EXCEPT !.parent[element] = p, !.location[element] = loc]
    ELSE h

\* ------------------------------------------------------------------------
\* containers.py: ListContainer
\* ------------------------------------------------------------------------

\* Python's list index: negative indices count from the end
PyIndex(i, n) == IF i < 0 THEN i + n ELSE i

PyIndexOk(i, n) == PyIndex(i, n) >= 0 /\ PyIndex(i, n) < n

\* list.insert clamps the position into 0..len
PyInsertPos(i, n) ==
    IF PyIndex(i, n) < 0 THEN 0 ELSE IF PyIndex(i, n) > n THEN n ELSE PyIndex(i, n)

InsertAt(s, k, v) == SubSeq(s, 1, k) \o <<v>> \o SubSeq(s, k + 1, Len(s))

RemoveAt(s, k) == SubSeq(s, 1, k) \o SubSeq(s, k + 2, Len(s))

\* ListContainer.insert
ListContainer_insert(h, slot, i, v) ==
    IF ~check_type(h, v, h.lists[slot].oktypes)
    THEN Outcome("TypeError", h, None)
    ELSE Outcome("ok",
                 [h EXCEPT !.lists[slot].list =
                     InsertAt(@, PyInsertPos(i, Len(@)), v)], None)

\* MutableSequence.append: insert at len(self)
ListContainer_append(h, slot, v) ==
    ListContainer_insert(h, slot, Len(h.lists[slot].list), v)

RECURSIVE ListContainer_extend(_, _, _)
\* MutableSequence.extend: append the values one by one; the first failing
\* append raises and leaves the earlier values appended
ListContainer_extend(h, slot, values) ==
    IF values = <<>>
    THEN Outcome("ok", h, None)
    ELSE LET r == ListContainer_append(h, slot, Head(values))
         IN  IF r.err # "ok" THEN r
             ELSE ListContainer_extend(r.h, slot, Tail(values))

\* an index assignment that stores the value without checking its kind
ListContainer_setitem_unchecked(h, slot, i, v) ==
    IF ~PyIndexOk(i, Len(h.lists[slot].list))
    THEN Outcome("IndexError", h, None)
    ELSE Outcome("ok",
                 [h EXCEPT !.lists[slot].list[PyIndex(i, Len(h.lists[slot].list)) + 1] = v],
                 None)

\* ListContainer.__setitem__ with an integer index
ListContainer_setitem(h, slot, i, v) ==
    IF ~check_type(h, v, h.lists[slot].oktypes)
    THEN Outcome("TypeError", h, None)
    ELSE IF ~PyIndexOk(i, Len(h.lists[slot].list))
    THEN Outcome("IndexError", h, None)
    ELSE Outcome("ok",
                 [h EXCEPT !.lists[slot].list[PyIndex(i, Len(h.lists[slot].list)) + 1] = v],
                 None)

\* ListContainer.__delitem__ with an integer index
ListContainer_delitem(h, slot, i) ==
    IF ~PyIndexOk(i, Len(h.lists[slot].list))
    THEN Outcome("IndexError", h, None)
    ELSE Outcome("ok",
                 [h EXCEPT !.lists[slot].list =
                     RemoveAt(@, PyIndex(i, Len(@)))], None)

\* ListContainer.__getitem__ with an integer index
ListContainer_getitem(h, slot, i) ==
    LET c == h.lists[slot]
    IN  IF ~PyIndexOk(i, Len(c.list))
        THEN Outcome("IndexError", h, None)
        ELSE LET e == c.list[PyIndex(i, Len(c.list)) + 1]
             IN  Outcome("ok", attach(h, e, c.parent, c.location), e)

\* ListContainer.__init__ called with one sequence argument: the new container
\* is stored in slot only when every value passed the check
ListContainer_init(h, slot, values, oktypes, p, loc) ==
    LET fresh == [list |-> <<>>, oktypes |-> oktypes, parent |-> p,
                  location |-> loc]
        h0 == [h EXCEPT !.lists = (slot :> fresh) @@ h.lists]
        r  == ListContainer_extend(h0, slot, values)
    IN  IF r.err = "ok" THEN r ELSE Outcome(r.err, h, None)

\* ------------------------------------------------------------------------
\* containers.py: DictContainer (an OrderedDict: a sequence of <<key, value>>)
\* ------------------------------------------------------------------------

DictKeys(d) == {d[i][1] : i \in 1..Len(d)}

DictPos(d, k) == CHOOSE i \in 1..Len(d) : d[i][1] = k

\* OrderedDict assignment: an existing key keeps its position
DictPut(d, k, v) ==
    IF k \in DictKeys(d) THEN [d EXCEPT ![DictPos(d, k)] = <<k, v>>]
    ELSE Append(d, <<k, v>>)

\* DictContainer.__setitem__
DictContainer_setitem(h, slot, k, v) ==
    IF ~check_type(h, v, h.dicts[slot].oktypes)
    THEN Outcome("TypeError", h, None)
    ELSE Outcome("ok", [h EXCEPT !.dicts[slot].dict = DictPut(@, k, v)], None)

\* DictContainer.__getitem__
DictContainer_getitem(h, slot, k) ==
    LET c == h.dicts[slot]
    IN  IF k \notin DictKeys(c.dict)
        THEN Outcome("KeyError", h, None)
        ELSE LET e == c.dict[DictPos(c.dict, k)][2]
             IN  Outcome("ok", attach(h, e, c.parent, c.location), e)

\* DictContainer.__delitem__
DictContainer_delitem(h, slot, k) ==
    LET d == h.dicts[slot].dict
    IN  IF k \notin DictKeys(d)
        THEN Outcome("KeyError", h, None)
        ELSE Outcome("ok",
                     [h EXCEPT !.dicts[slot].dict =
                         RemoveAt(@, DictPos(d, k) - 1)], None)

RECURSIVE DictContainer_update(_, _, _)
\* MutableMapping.update with a sequence of pairs: self[key] = value in order
DictContainer_update(h, slot, pairs) ==
    IF pairs = <<>>
    THEN Outcome("ok", h, None)
    ELSE LET r == DictContainer_setitem(h, slot, Head(pairs)[1], Head(pairs)[2])
         IN  IF r.err # "ok" THEN r
             ELSE DictContainer_update(r.h, slot, Tail(pairs))

\* DictContainer.__init__(*args, oktypes, parent): location is always None
DictContainer_init(h, slot, pairs, oktypes, p) ==
    LET fresh == [dict |-> <<>>, oktypes |-> oktypes, parent |-> p,
                  location |-> None]
        h0 == [h EXCEPT !.dicts = (slot :> fresh) @@ h.dicts]
        r  == DictContainer_update(h0, slot, pairs)
    IN  IF r.err = "ok" THEN r ELSE Outcome(r.err, h, None)

\* ------------------------------------------------------------------------
\* base.py: Element.content and the constructors that fill containers
\* ------------------------------------------------------------------------

\* Element._set_content
Element_set_content(h, e, values, oktypes) ==
    ListContainer_init(h, <<e, "_content">>, values, oktypes, e, None)

\* a setter that adds to the container it finds instead of replacing it
content_setter_extends(h, e, values) ==
    IF <<e, "_content">> \notin DOMAIN h.lists
    THEN Outcome("AttributeError", h, None)
    ELSE ListContainer_extend(h, <<e, "_content">>, values)

\* Element.content (setter): _content is None for elements without children
content_setter(h, e, values) ==
    IF <<e, "_content">> \notin DOMAIN h.lists
    THEN Outcome("AttributeError", h, None)
    ELSE ListContainer_init(h, <<e, "_content">>, values,
                            h.lists[<<e, "_content">>].oktypes, e, None)

\* Inline.__init__(*args)
Inline_init(h, e, c, args) ==
    Element_set_content(Element_init(h, e, c, None, None), e, args,
                        child_type(c))

\* Cite.citations (setter)
Cite_citations_setter(h, e, value) ==
    ListContainer_init(h, <<e, "_citations">>, value, "Citation", e,
                       "citations")

\* Cite.__init__(*args, citations)
Cite_init(h, e, args, citations) ==
    LET r == Inline_init(h, e, "Cite", args)
    IN  IF r.err # "ok" THEN Outcome(r.err, h, None)
        ELSE LET q == Cite_citations_setter(r.h, e, citations)
             IN  IF q.err # "ok" THEN Outcome(q.err, h, None) ELSE q

\* Citation.__init__ with the default prefix='' and suffix=''
Citation_init(h, e) ==
    LET h0 == Element_init(h, e, "Citation", None, None)
        r  == ListContainer_init(h0, <<e, "_prefix">>, <<>>, "Inline", e,
                                 "prefix")
    IN  ListContainer_init(r.h, <<e, "_suffix">>, <<>>, "Inline", e,
                           "suffix").h

\* what a constructor's positional argument looks like when Element.__init__
\* binds it to parent or location: a (key, value) tuple
PyTuple == "tuple"

\* Element.__init__(*args) as MetaMap and MetaList call it: the arguments bind
\* to identifier, parent, location; more than three raise TypeError
Element_init_positional(h, e, c, args) ==
    Element_init(h, e, c,
                 IF Len(args) >= 2 THEN PyTuple ELSE None,
                 IF Len(args) >= 3 THEN PyTuple ELSE None)

\* builtin2meta: the class of the node built around val, None when val is
\* passed through unchanged
builtin2meta_class(h, val) ==
    CASE val = "bool:True" -> "MetaBool"
      [] val = "int:1" -> "MetaString"
      [] val = "str:x" -> None
      [] "Block" \in Mro(h.cls[val]) -> "MetaBlocks"
      [] "Inline" \in Mro(h.cls[val]) -> "MetaInlines"
      [] OTHER -> None

\* MetaMap.__init__(*args), for arguments builtin2meta passes through
MetaMap_init(h, e, args) ==
    IF Len(args) > 3 THEN Outcome("TypeError", h, None)
    ELSE LET r == DictContainer_init(
                     Element_init_positional(h, e, "MetaMap", args),
                     <<e, "_content">>, args, "MetaValue", e)
         IN  IF r.err # "ok" THEN Outcome(r.err, h, None) ELSE r

\* Block.__init__(*args) with the default identifier, classes, attributes
Block_init(h, e, c, args) ==
    Element_set_content(Element_init(h, e, c, None, None), e, args,
                        child_type(c))

\* MetaInlines.__init__(*args): Element.__init__ binds the arguments to
\* identifier, parent and location before the content is set
MetaInlines_init(h, e, args) ==
    IF Len(args) > 3 THEN Outcome("TypeError", h, None)
    ELSE LET r == Element_set_content(
                     Element_init(h, e, "MetaInlines",
                                  IF Len(args) >= 2 THEN args[2] ELSE None,
                                  IF Len(args) >= 3 THEN args[3] ELSE None),
                     e, args, "Inline")
         IN  IF r.err # "ok" THEN Outcome(r.err, h, None) ELSE r

\* ------------------------------------------------------------------------
\* base.py, containers.py: walk
\* ------------------------------------------------------------------------

\* Element._children as overridden per class: the child-holding attributes
children(c) ==
    CASE c = "Doc" -> <<"metadata", "content">>
      [] c = "Cite" -> <<"content", "citations">>
      [] c = "Citation" -> <<"prefix", "suffix">>
      [] c = "DefinitionItem" -> <<"term", "definitions">>
      [] c = "Table" -> <<"header", "content", "caption">>
      [] c \in {"Null", "Space", "HorizontalRule", "SoftBreak", "LineBreak",
                "Str", "CodeBlock", "RawBlock", "Code", "Math", "RawInline",
                "InlineText", "BlockText", "MetaValue", "MetaString",
                "MetaBool", "Element"} -> <<>>
      [] OTHER -> <<"content">>

\* values that walk and action pass around: an element, or a list of elements
Elem(e) == [kind |-> "elem", val |-> <<e>>]

PyList(es) == [kind |-> "list", val |-> es]

PyNone == [kind |-> "none", val |-> <<>>]

\* no walk has run yet
NotWalked ==
    [op |-> "none", at |-> None, attr |-> None, err |-> "ok", ret |-> PyNone]

\* outcome of a walk: exception, heap, visit log, return value
Walked(e, h, vis, r) == [err |-> e, h |-> h, vis |-> vis, ret |-> r]

\* getattr(self, child): the container the attribute holds, or None
getattr(h, e, child) ==
    LET slot == <<e, "_" \o child>>
    IN  IF slot \in DOMAIN h.lists THEN [kind |-> "list", slot |-> slot]
        ELSE IF slot \in DOMAIN h.dicts THEN [kind |-> "dict", slot |-> slot]
        ELSE [kind |-> "none", slot |-> slot]

\* hasattr(child, 'walk') with child the attribute's name: a str has no walk
hasattr_walk(child) == FALSE

\* setattr(self, child, ans) with the list a container walk returned
setattr(h, e, child, ans) ==
    CASE child = "content" /\ <<e, "_content">> \in DOMAIN h.dicts ->
            IF \A j \in 1..Len(ans.val) : ans.val[j][2].kind = "elem"
            THEN DictContainer_init(
                     h, <<e, "_content">>,
                     [j \in 1..Len(ans.val) |->
                         <<ans.val[j][1], ans.val[j][2].val[1]>>],
                     "MetaValue", e)
            ELSE Outcome("TypeError", h, None)
      [] child = "content" -> content_setter(h, e, ans.val)
      [] child = "citations" -> Cite_citations_setter(h, e, ans.val)
      [] OTHER ->
            ListContainer_init(h, <<e, "_" \o child>>, ans.val, "Inline", e,
                               child)

\* action(self, doc): the filter function is invoked on e and answers
\* None, a replacement element, or a list of elements ([] deletes)
call_action(act, e) == act[e]

RECURSIVE Element_walk(_, _, _, _)
RECURSIVE walk_children(_, _, _, _, _)
RECURSIVE ListContainer_walk_from(_, _, _, _, _, _)
RECURSIVE DictContainer_walk_from(_, _, _, _, _, _)

\* the member of a one-element set: binds an outcome once, by value
Only(S) == CHOOSE x \in S : TRUE

\* ListContainer.walk from position i on (iteration reads self[i], which
\* attaches the member); acc is the flattened list so far
ListContainer_walk_from(h, vis, act, slot, i, acc) ==
    IF i >= Len(h.lists[slot].list)
    THEN Walked("ok", h, vis, PyList(acc))
    ELSE Only({
           Only({
             IF w.err # "ok" THEN w
             ELSE ListContainer_walk_from(
                      w.h, w.vis, act, slot, i + 1,
                      acc \o (IF w.ret.kind # "list" THEN <<w.ret.val[1]>>
                              ELSE w.ret.val)) :
             w \in {Element_walk(g.h, vis, act, g.ret)}}) :
           g \in {ListContainer_getitem(h, slot, i)}})

\* ListContainer.walk
ListContainer_walk(h, vis, act, slot) ==
    ListContainer_walk_from(h, vis, act, slot, 0, <<>>)

\* DictContainer.walk from the i-th key on; a pair is kept unless its walked
\* value equals []
DictContainer_walk_from(h, vis, act, slot, i, acc) ==
    IF i > Len(h.dicts[slot].dict)
    THEN Walked("ok", h, vis, [kind |-> "pairs", val |-> acc])
    ELSE Only({
           Only({
             IF w.err # "ok" THEN w
             ELSE DictContainer_walk_from(
                      w.h, w.vis, act, slot, i + 1,
                      IF w.ret = PyList(<<>>) THEN acc
                      ELSE Append(acc, <<h.dicts[slot].dict[i][1], w.ret>>)) :
             w \in {Element_walk(g.h, vis, act, g.ret)}}) :
           g \in {DictContainer_getitem(h, slot, h.dicts[slot].dict[i][1])}})

\* DictContainer.walk
DictContainer_walk(h, vis, act, slot) ==
    DictContainer_walk_from(h, vis, act, slot, 1, <<>>)

\* Element.walk, the loop "for child in self._children" from the j-th child
walk_children(h, vis, act, e, j) ==
    IF j > Len(children(h.cls[e]))
    THEN Walked("ok", h, vis, PyNone)
    ELSE LET child == children(h.cls[e])[j]
             obj   == getattr(h, e, child)
         IN  IF obj.kind = "none"
             THEN walk_children(h, vis, act, e, j + 1)
             ELSE IF hasattr_walk(child)
             THEN Only({
                    IF w.err # "ok" THEN w
                    ELSE Only({
                           IF s.err # "ok"
                           THEN Walked(s.err, w.h, w.vis, PyNone)
                           ELSE walk_children(s.h, w.vis, act, e, j + 1) :
                           s \in {setattr(w.h, e, child, w.ret)}}) :
                    w \in {IF obj.kind = "list"
                           THEN ListContainer_walk(h, vis, act, obj.slot)
                           ELSE DictContainer_walk(h, vis, act, obj.slot)}})
             ELSE Walked("TypeError", h, vis, PyNone)

\* Element.walk: the children first, then action on the element itself
Element_walk(h, vis, act, e) ==
    Only({
      IF w.err # "ok" THEN w
      ELSE Walked("ok", w.h, Append(w.vis, e),
                  IF call_action(act, e) = PyNone THEN Elem(e)
                  ELSE call_action(act, e)) :
      w \in {walk_children(h, vis, act, e, 1)}})

\* ------------------------------------------------------------------------
\* Specification Spec: a program that builds elements and uses their
\* containers.  The objects it can create:
\*   "str"        Str('x')
\*   "citation"   Citation('k')
\*   "metastring" MetaString('x')
\*   "cite"       Cite(*args, citations=...)
\*   "metamap"    MetaMap(*args)
\* ------------------------------------------------------------------------

EmptyHeap ==
    [cls |-> <<>>, parent |-> <<>>, location |-> <<>>, lists |-> <<>>,
     dicts |-> <<>>]

\* a program over ordered containers starts from these leaves
ListLeafHeap ==
    Citation_init(Inline_init(EmptyHeap, "str", "Str", <<>>).h, "citation")

\* a program over the keyed container starts from these leaves
DictLeafHeap ==
    Element_init(Citation_init(EmptyHeap, "citation"),
                 "metastring", "MetaString", None, None)

Keys == {"a", "b"}

\* single values a program hands to the ordered containers
Values == Made(Heap)

\* members of the sequences a program hands to extend, setters, constructors
SeqValues == {"str", "citation"} \cap Made(Heap)

\* values a program hands to the keyed container
DictValues == Made(Heap) \cup {"str:x"}

\* the ordered containers the operations are exercised on
OpSlots == {<<"cite", "_content">>, <<"cite", "_citations">>} \cap DOMAIN lists

DictSlots == DOMAIN dicts

\* the call takes effect: heap, exception and return value of outcome r
Do(op, r) ==
    LET o == r
    IN  /\ last' = [op |-> op, err |-> o.err, ret |-> o.ret]
        /\ lists' = o.h.lists
        /\ dicts' = o.h.dicts
        /\ parent' = o.h.parent
        /\ location' = o.h.location
        /\ cls' = o.h.cls
        /\ UNCHANGED walkvars
        /\ UNCHANGED codecvars

Init ==
    /\ \E h0 \in {ListLeafHeap, DictLeafHeap} :
          /\ cls = h0.cls
          /\ parent = h0.parent
          /\ location = h0.location
          /\ lists = h0.lists
          /\ dicts = h0.dicts
    /\ last = [op |-> "init", err |-> "ok", ret |-> None]
    /\ action = <<>>
    /\ visited = <<>>
    /\ walked = NotWalked
    /\ source = JNone
    /\ wire = JNone
    /\ decoded = NotDecoded

ConstructCite ==
    /\ "str" \in Made(Heap)
    /\ "cite" \notin Made(Heap)
    /\ \E args \in BoundedSeq(SeqValues, MaxArgs),
          citations \in BoundedSeq(SeqValues, MaxArgs) :
          Do("Cite", Cite_init(Heap, "cite", args, citations))

ConstructMetaMap ==
    /\ "metastring" \in Made(Heap)
    /\ "metamap" \notin Made(Heap)
    /\ \E args \in BoundedSeq(
                       Keys \X {v \in DictValues :
                                   builtin2meta_class(Heap, v) = None},
                       MaxArgs) :
          Do("MetaMap", MetaMap_init(Heap, "metamap", args))

Insert ==
    \E slot \in OpSlots, i \in -1..MaxLen, v \in Values :
        /\ Len(lists[slot].list) < MaxLen
        /\ Do("insert", ListContainer_insert(Heap, slot, i, v))

AppendItem ==
    \E slot \in OpSlots, v \in Values :
        /\ Len(lists[slot].list) < MaxLen
        /\ Do("append", ListContainer_append(Heap, slot, v))

Extend ==
    \E slot \in OpSlots, values \in BoundedSeq(SeqValues, MaxArgs) :
        /\ Len(lists[slot].list) + Len(values) <= MaxLen
        /\ Do("extend", ListContainer_extend(Heap, slot, values))

SetItem ==
    \E slot \in OpSlots, i \in -1..MaxLen, v \in Values :
        Do("setitem", ListContainer_setitem(Heap, slot, i, v))

DelItem ==
    \E slot \in OpSlots, i \in -1..MaxLen :
        Do("delitem", ListContainer_delitem(Heap, slot, i))

GetItem ==
    \E slot \in OpSlots, i \in -1..MaxLen :
        Do("getitem", ListContainer_getitem(Heap, slot, i))

SetContent ==
    \E e \in {"cite", "citation"} \cap Made(Heap),
       values \in BoundedSeq(SeqValues, MaxArgs) :
        Do("content", content_setter(Heap, e, values))

SetCitations ==
    \E values \in BoundedSeq(SeqValues, MaxArgs) :
        /\ "cite" \in Made(Heap)
        /\ Do("citations", Cite_citations_setter(Heap, "cite", values))

DictSetItem ==
    \E slot \in DictSlots, k \in Keys, v \in DictValues :
        Do("dict_setitem", DictContainer_setitem(Heap, slot, k, v))

DictGetItem ==
    \E slot \in DictSlots, k \in Keys :
        Do("dict_getitem", DictContainer_getitem(Heap, slot, k))

DictDelItem ==
    \E slot \in DictSlots, k \in Keys :
        Do("dict_delitem", DictContainer_delitem(Heap, slot, k))

Next ==
    \/ ConstructCite
    \/ ConstructMetaMap
    \/ Insert
    \/ AppendItem
    \/ Extend
    \/ SetItem
    \/ DelItem
    \/ GetItem
    \/ SetContent
    \/ SetCitations
    \/ DictSetItem
    \/ DictGetItem
    \/ DictDelItem

Spec == Init /\ [][Next]_vars

\* ------------------------------------------------------------------------
\* Specification SpecWalk: a program that builds one tree, picks a filter
\* function and walks an element or a container of the tree
\* ------------------------------------------------------------------------

\* the leaves every paragraph tree is built from; emph = Emph(Str b)
InlineLeafHeap ==
    LET h1 == Inline_init(EmptyHeap, "a", "Str", <<>>).h
        h2 == Inline_init(h1, "b", "Str", <<>>).h
        h3 == Inline_init(h2, "c", "Str", <<>>).h
        h4 == Inline_init(h3, "x", "Str", <<>>).h
        h5 == Inline_init(h4, "y", "Str", <<>>).h
    IN  Inline_init(h5, "emph", "Emph", <<"b">>).h

\* the leaves every metadata tree is built from; metainlines = MetaInlines(a)
MetaLeafHeap ==
    LET h1 == Inline_init(EmptyHeap, "a", "Str", <<>>).h
        h2 == Element_init(h1, "metastring", "MetaString", None, None)
        h3 == Element_init(h2, "metabool", "MetaBool", None, None)
        h4 == Element_init(h3, "x", "MetaString", None, None)
    IN  MetaInlines_init(h4, "metainlines", <<"a">>).h

\* sequences without repetition
Injective(s) == \A i, j \in 1..Len(s) : i # j => s[i] # s[j]

\* the trees: para = Para(members...), metamap = MetaMap((key, value)...)
ParaTrees ==
    {Block_init(InlineLeafHeap, "para", "Para", ms).h :
        ms \in {s \in BoundedSeq({"a", "c", "emph"}, MaxLen) : Injective(s)}}

MetaMapTrees ==
    {MetaMap_init(MetaLeafHeap, "metamap", ps).h :
        ps \in {s \in BoundedSeq(Keys \X {"metastring", "metabool",
                                          "metainlines"}, MaxArgs) :
                   Injective([i \in 1..Len(s) |-> s[i][1]])}}

\* cite = Cite(a, citations=[citation]): a node with two child containers
CiteTrees ==
    {Cite_init(Citation_init(InlineLeafHeap, "citation"), "cite", <<"a">>,
               <<"citation">>).h}

\* what a filter function may answer for a member of a container: None, [],
\* a node of the kind the container allows, or (ordered containers) two nodes
Answers(h) ==
    {PyNone, PyList(<<>>), Elem("x")}
        \cup (IF "y" \in DOMAIN h.cls THEN {PyList(<<"x", "y">>)} ELSE {})

\* the filter functions: total on the elements of the tree; container members
\* get any answer, the root and the nested leaf None or a replacement, and
\* the replacement nodes themselves None
Actions(h) ==
    LET members == DOMAIN h.cls \cap
                     (IF "metamap" \in DOMAIN h.cls
                      THEN {"metastring", "metabool", "metainlines"}
                      ELSE {"a", "c", "emph"})
        others  == DOMAIN h.cls \cap
                     (IF "metamap" \in DOMAIN h.cls THEN {"metamap"}
                      ELSE {"b", "para"})
    IN  {[e \in DOMAIN h.cls |->
            IF e \in members THEN f[e]
            ELSE IF e \in others THEN g[e] ELSE PyNone] :
         f \in [members -> Answers(h)],
         g \in [others -> {PyNone, Elem("x")}]}

InitWalk ==
    /\ \E h0 \in ParaTrees \cup MetaMapTrees \cup CiteTrees :
          /\ cls = h0.cls
          /\ parent = h0.parent
          /\ location = h0.location
          /\ lists = h0.lists
          /\ dicts = h0.dicts
          /\ action \in Actions(h0)
    /\ last = [op |-> "init", err |-> "ok", ret |-> None]
    /\ visited = <<>>
    /\ walked = NotWalked
    /\ source = JNone
    /\ wire = JNone
    /\ decoded = NotDecoded

\* the heap, the visit log and the outcome after a walk w started at
\* (op, e, attr)
DoWalk(op, e, attr, w) ==
    /\ walked' = [op |-> op, at |-> e, attr |-> attr, err |-> w.err,
                  ret |-> w.ret]
    /\ visited' = w.vis
    /\ lists' = w.h.lists
    /\ dicts' = w.h.dicts
    /\ parent' = w.h.parent
    /\ location' = w.h.location
    /\ cls' = w.h.cls
    /\ UNCHANGED <<last, action>>
    /\ UNCHANGED codecvars

\* e.walk(action)
WalkElement ==
    /\ walked.op = "none"
    /\ \E e \in Made(Heap) \ {"x", "y"} :
          \E w \in {Element_walk(Heap, visited, action, e)} :
             DoWalk("Element.walk", e, None, w)

\* e.content.walk(action, doc) on an ordered container
WalkListContainer ==
    /\ walked.op = "none"
    /\ \E slot \in DOMAIN lists :
          /\ slot[1] \notin {"x", "y"}
          /\ \E w \in {ListContainer_walk(Heap, visited, action, slot)} :
                DoWalk("ListContainer.walk", slot[1], slot[2], w)

\* e.content.walk(action, doc) on a keyed container
WalkDictContainer ==
    /\ walked.op = "none"
    /\ \E slot \in DOMAIN dicts :
          \E w \in {DictContainer_walk(Heap, visited, action, slot)} :
             DoWalk("DictContainer.walk", slot[1], slot[2], w)

NextWalk ==
    \/ WalkElement
    \/ WalkListContainer
    \/ WalkDictContainer

SpecWalk == InitWalk /\ [][NextWalk]_vars

\* ------------------------------------------------------------------------
\* containers.py: slices; base.py: container, index, offset, next, prev
\* ------------------------------------------------------------------------

\* list.__getitem__(slice(lo, hi)): the bounds are clamped into 0..len
PySlice(s, lo, hi) ==
    SubSeq(s, PyInsertPos(lo, Len(s)) + 1, PyInsertPos(hi, Len(s)))

\* the program's variable that holds the container a slice returned
SliceSlot == <<"sliced", "list">>

RECURSIVE AttachAll(_, _, _)
\* self[0] .. self[n-1] read one after the other: each read attaches
AttachAll(h, slot, n) ==
    IF n = 0 THEN h
    ELSE attach(AttachAll(h, slot, n - 1), h.lists[slot].list[n],
                h.lists[slot].parent, h.lists[slot].location)

\* list(value) as ListContainer.__init__ calls it on each of its arguments:
\* a str yields its characters, a MetaList is iterated through __getitem__,
\* a MetaMap fails on self.content[0], any other element is not iterable
list_of(h, value) ==
    CASE value = "str:x" -> Outcome("ok", h, <<value>>)
      [] value \in BuiltinScalars -> Outcome("TypeError", h, <<>>)
      [] h.cls[value] = "MetaList" /\ <<value, "_content">> \in DOMAIN h.lists ->
            Outcome("ok",
                    AttachAll(h, <<value, "_content">>,
                              Len(h.lists[<<value, "_content">>].list)),
                    h.lists[<<value, "_content">>].list)
      [] h.cls[value] = "MetaMap" -> Outcome("KeyError", h, <<>>)
      [] OTHER -> Outcome("TypeError", h, <<>>)

RECURSIVE ListContainer_init_each(_, _, _)
\* ListContainer.__init__(*args): for value in args: self.extend(list(value))
ListContainer_init_each(h, slot, args) ==
    IF args = <<>> THEN Outcome("ok", h, None)
    ELSE Only({
           IF v.err # "ok" THEN Outcome(v.err, v.h, None)
           ELSE Only({
                  IF r.err # "ok" THEN r
                  ELSE ListContainer_init_each(r.h, slot, Tail(args)) :
                  r \in {ListContainer_extend(v.h, slot, v.ret)}}) :
           v \in {list_of(h, Head(args))}})

\* ListContainer.__getitem__ with a slice: ListContainer(*newlist,
\* oktypes=self.oktypes, parent=self.parent), then obj.location = self.location
ListContainer_getslice(h, slot, lo, hi) ==
    Only({
      IF r.err # "ok" THEN Outcome(r.err, [r.h EXCEPT !.lists = h.lists], None)
      ELSE Outcome("ok",
                   [r.h EXCEPT !.lists[SliceSlot].location =
                                   h.lists[slot].location],
                   SliceSlot[1]) :
      r \in {ListContainer_init_each(
                [h EXCEPT !.lists =
                    (SliceSlot :> [list |-> <<>>,
                                   oktypes |-> h.lists[slot].oktypes,
                                   parent |-> h.lists[slot].parent,
                                   location |-> None]) @@ h.lists],
                SliceSlot,
                PySlice(h.lists[slot].list, lo, hi))}})

\* Element.container: None without a parent, parent.content without a
\* location, else the attribute of the parent the location names
Element_container(h, e) ==
    IF h.parent[e] = None THEN [kind |-> "none", slot |-> <<None, None>>]
    ELSE getattr(h, h.parent[e],
                 IF h.location[e] = None THEN "content" ELSE h.location[e])

\* positions (from 0) of e in a list
Positions(s, e) == {i \in 0..(Len(s) - 1) : s[i + 1] = e}

Min(S) == CHOOSE i \in S : \A j \in S : i <= j

\* Sequence.index(value): self[0], self[1], ... are read until one is value;
\* ValueError when none is
Sequence_index(h, slot, e) ==
    IF Positions(h.lists[slot].list, e) = {}
    THEN Outcome("ValueError",
                 AttachAll(h, slot, Len(h.lists[slot].list)), <<>>)
    ELSE Outcome("ok",
                 AttachAll(h, slot, Min(Positions(h.lists[slot].list, e)) + 1),
                 <<Min(Positions(h.lists[slot].list, e))>>)

\* Element.index: <<i>> for the int i, <<>> for None
Element_index(h, e) ==
    Only({
      CASE c.kind = "none" -> Outcome("ok", h, <<>>)
        [] c.kind = "dict" -> Outcome("AttributeError", h, <<>>)
        [] OTHER -> Sequence_index(h, c.slot, e) :
      c \in {Element_container(h, e)}})

\* Element.offset(n): <<sibling>> for an element, <<>> for None
Element_offset(h, e, n) ==
    Only({
      IF idx.err # "ok" THEN idx
      ELSE IF idx.ret = <<>> THEN Outcome("ok", idx.h, <<>>)
      ELSE Only({
             IF 0 <= idx.ret[1] + n
                /\ idx.ret[1] + n < Len(idx.h.lists[c.slot].list)
             THEN Only({Outcome(r.err, r.h, <<r.ret>>) :
                           r \in {ListContainer_getitem(idx.h, c.slot,
                                                        idx.ret[1] + n)}})
             ELSE Outcome("ok", idx.h, <<>>) :
             c \in {Element_container(idx.h, e)}}) :
      idx \in {Element_index(h, e)}})

\* Element.next
Element_next(h, e) == Element_offset(h, e, 1)

\* Element.prev
Element_prev(h, e) == Element_offset(h, e, -1)

\* Element.ancestor without the test of n
RECURSIVE Element_ancestor_any_n(_, _, _)
Element_ancestor_any_n(h, e, n) ==
    IF n = 1 \/ h.parent[e] = None THEN Outcome("ok", h, h.parent[e])
    ELSE IF h.parent[e] \notin Made(h) THEN Outcome("AttributeError", h, None)
    ELSE Element_ancestor_any_n(h, h.parent[e], n - 1)

\* Element.ancestor(n) for an int n; a parent that is no element has no
\* attribute 'ancestor'
RECURSIVE Element_ancestor(_, _, _)
Element_ancestor(h, e, n) ==
    IF n < 1 THEN Outcome("TypeError", h, None)
    ELSE IF n = 1 \/ h.parent[e] = None THEN Outcome("ok", h, h.parent[e])
    ELSE IF h.parent[e] \notin Made(h) THEN Outcome("AttributeError", h, None)
    ELSE Element_ancestor(h, h.parent[e], n - 1)

\* Element.doc: follow parent until None or a Doc; the loop has no bound, and
\* a chain of more nodes than there are has come back to a node it left, so
\* the lookup never returns ("diverges")
RECURSIVE Element_doc(_, _, _)
Element_doc(h, e, fuel) ==
    IF e = None THEN Outcome("ok", h, None)
    ELSE IF e \notin Made(h) THEN Outcome("AttributeError", h, None)
    ELSE IF h.cls[e] = "Doc" THEN Outcome("ok", h, e)
    ELSE IF fuel = 0 THEN Outcome("diverges", h, None)
    ELSE Element_doc(h, h.parent[e], fuel - 1)

\* the return value of index: None or an int
PyInt(ret) == IF ret = <<>> THEN None ELSE ToString(ret[1])

\* the return value of offset: None or an element
PyElem(ret) == IF ret = <<>> THEN None ELSE ret[1]

\* ------------------------------------------------------------------------
\* Specification SpecNav: a program that builds a paragraph, inserts, reads
\* and deletes members, slices the content and asks members for their index
\* and their siblings
\* ------------------------------------------------------------------------

\* the containers the program works on: the paragraph's and the latest slice
NavSlots == {<<"para", "_content">>, SliceSlot} \cap DOMAIN lists

\* the node the program inserts, and the nodes it asks for index and siblings
NavValues == {"x"}

NavNodes == {"a", "emph", "x"}

\* the relative positions handed to offset
Offsets == -1..1

\* the numbers handed to ancestor
Depths == -1..MaxLen

\* the bounds of the slices the program takes
SliceLo == 0..1

SliceHi == {-1, 0, MaxLen}

InitNav ==
    /\ \E h0 \in ParaTrees :
          /\ cls = h0.cls
          /\ parent = h0.parent
          /\ location = h0.location
          /\ lists = h0.lists
          /\ dicts = h0.dicts
    /\ last = [op |-> "init", err |-> "ok", ret |-> None]
    /\ action = <<>>
    /\ visited = <<>>
    /\ walked = NotWalked
    /\ source = JNone
    /\ wire = JNone
    /\ decoded = NotDecoded

NavInsert ==
    \E i \in {0, MaxLen}, v \in NavValues :
        /\ Len(lists[<<"para", "_content">>].list) < MaxLen
        /\ \E r \in {ListContainer_insert(Heap, <<"para", "_content">>, i, v)} :
              Do("insert", r)

NavGetItem ==
    \E slot \in NavSlots, i \in -1..MaxLen :
        \E r \in {ListContainer_getitem(Heap, slot, i)} : Do("getitem", r)

NavDelItem ==
    \E i \in {0, -1} :
        \E r \in {ListContainer_delitem(Heap, <<"para", "_content">>, i)} :
           Do("delitem", r)

GetSlice ==
    \E slot \in NavSlots, lo \in SliceLo, hi \in SliceHi :
        \E r \in {ListContainer_getslice(Heap, slot, lo, hi)} :
           Do("getslice", r)

Index ==
    \E e \in NavNodes :
        \E r \in {Element_index(Heap, e)} :
           Do("index", Outcome(r.err, r.h, PyInt(r.ret)))

Offset ==
    \E e \in NavNodes, n \in Offsets :
        \E r \in {Element_offset(Heap, e, n)} :
           Do("offset", Outcome(r.err, r.h, PyElem(r.ret)))

NextNav ==
    \/ NavInsert
    \/ NavGetItem
    \/ NavDelItem
    \/ GetSlice
    \/ Index
    \/ Offset

SpecNav == InitNav /\ [][NextNav]_vars

\* ------------------------------------------------------------------------
\* Specification SpecTree: a program that builds a paragraph holding an
\* emphasis, inserts, reads and deletes members at both levels and asks
\* nodes for their ancestors
\* ------------------------------------------------------------------------

\* emph.content[i]
ReadEmph ==
    \E i \in -1..0 :
        /\ <<"emph", "_content">> \in DOMAIN lists
        /\ \E r \in {ListContainer_getitem(Heap, <<"emph", "_content">>, i)} :
              Do("getitem", r)

Ancestor ==
    \E e \in NavNodes \cup {"b"}, n \in Depths :
        \E r \in {Element_ancestor(Heap, e, n)} : Do("ancestor", r)

NextTree ==
    \/ NavInsert
    \/ NavGetItem
    \/ NavDelItem
    \/ ReadEmph
    \/ Ancestor

SpecTree == InitNav /\ [][NextTree]_vars

\* ------------------------------------------------------------------------
\* Properties of the containers
\* ------------------------------------------------------------------------

\* the location tag of the container an element keeps in attribute attr
AttrLocation(attr) ==
    CASE attr = "_content" -> None
      [] attr = "_citations" -> "citations"
      [] attr = "_prefix" -> "prefix"
      [] attr = "_suffix" -> "suffix"

\* C1: reading a member back from the ordered or keyed container of owner p
\* by index or key returns that very member, with parent = p and location =
\* the container's location tag, whatever the member carried before the read.
C1_AttachOnRead ==
    [][ /\ last'.op = "getitem" =>
           \A slot \in DOMAIN lists, i \in -1..MaxLen :
            ( /\ PyIndexOk(i, Len(lists[slot].list))
              /\ Do("getitem", ListContainer_getitem(Heap, slot, i)) )
            => LET n == lists[slot].list[PyIndex(i, Len(lists[slot].list)) + 1]
               IN  /\ last'.err = "ok"
                   /\ last'.ret = n
                   /\ parent'[n] = slot[1]
                   /\ location'[n] = AttrLocation(slot[2])
                   /\ lists' = lists
        /\ last'.op = "dict_getitem" =>
           \A slot \in DOMAIN dicts, k \in Keys :
            ( /\ k \in DictKeys(dicts[slot].dict)
              /\ Do("dict_getitem", DictContainer_getitem(Heap, slot, k)) )
            => LET n == dicts[slot].dict[DictPos(dicts[slot].dict, k)][2]
               IN  /\ last'.err = "ok"
                   /\ last'.ret = n
                   /\ parent'[n] = slot[1]
                   /\ location'[n] = AttrLocation(slot[2])
                   /\ dicts' = dicts
      ]_vars

\* a member is read back from the citations container of cite
C1_Witness ==
    /\ last.op = "getitem"
    /\ last.err = "ok"
    /\ last.ret = "citation"
    /\ parent["citation"] = "cite"
    /\ location["citation"] = "citations"

\* a member is read back from the keyed container of metamap
C1_WitnessKeyed ==
    /\ last.op = "dict_getitem"
    /\ last.err = "ok"
    /\ last.ret = "metastring"
    /\ parent["metastring"] = "metamap"

AllAllowed(h, values, oktypes) ==
    \A j \in 1..Len(values) : isinstance(h, values[j], oktypes)

\* every member of every container is an instance of the container's oktypes
MembersAllowed ==
    /\ \A slot \in DOMAIN lists :
          AllAllowed(Heap, lists[slot].list, lists[slot].oktypes)
    /\ \A slot \in DOMAIN dicts :
          \A j \in 1..Len(dicts[slot].dict) :
              isinstance(Heap, dicts[slot].dict[j][2], dicts[slot].oktypes)

\* in the current state, every operation handed a value outside the kind-set
\* ends in TypeError
DisallowedWritesFail ==
    /\ \A slot \in OpSlots, i \in -1..MaxLen, v \in Values :
          ~isinstance(Heap, v, lists[slot].oktypes) =>
             /\ ListContainer_insert(Heap, slot, i, v).err = "TypeError"
             /\ ListContainer_append(Heap, slot, v).err = "TypeError"
             /\ ListContainer_setitem(Heap, slot, i, v).err = "TypeError"
    /\ \A slot \in OpSlots, values \in BoundedSeq(SeqValues, MaxArgs) :
          ~AllAllowed(Heap, values, lists[slot].oktypes) =>
             /\ ListContainer_extend(Heap, slot, values).err = "TypeError"
             /\ slot[2] = "_content" =>
                  content_setter(Heap, slot[1], values).err = "TypeError"
             /\ slot[2] = "_citations" =>
                  Cite_citations_setter(Heap, slot[1], values).err
                     = "TypeError"
    /\ \A slot \in DOMAIN dicts, k \in Keys, v \in DictValues :
          ~isinstance(Heap, v, dicts[slot].oktypes) =>
             DictContainer_setitem(Heap, slot, k, v).err = "TypeError"
    /\ \A args \in BoundedSeq(SeqValues, MaxArgs),
          citations \in BoundedSeq(SeqValues, MaxArgs) :
          ( /\ "cite" \notin Made(Heap)
            /\ \/ ~AllAllowed(Heap, args, "Inline")
               \/ ~AllAllowed(Heap, citations, "Citation") )
          => LET r == Cite_init(Heap, "cite", args, citations)
             IN  r.err = "TypeError" /\ "cite" \notin Made(r.h)
    /\ \A args \in BoundedSeq(Keys \X DictValues, MaxArgs) :
          ( /\ "metamap" \notin Made(Heap)
            /\ \E j \in 1..Len(args) :
                  ~isinstance(Heap, args[j][2], "MetaValue") )
          => LET r == MetaMap_init(Heap, "metamap", args)
             IN  r.err = "TypeError" /\ "metamap" \notin Made(r.h)

C10_ContentSetterReplaces ==
    \A e \in Made(Heap), values \in BoundedSeq(SeqValues, MaxArgs) :
        <<e, "_content">> \in DOMAIN lists =>
           LET old == lists[<<e, "_content">>]
               r   == content_setter(Heap, e, values)
               new == r.h.lists[<<e, "_content">>]
           IN  IF AllAllowed(Heap, values, old.oktypes)
               THEN /\ r.err = "ok"
                    /\ new.list = values
                    /\ new.oktypes = old.oktypes
                    /\ new.parent = e
               ELSE r.err = "TypeError"

\* the content of cite was replaced by two members
C10_Witness ==
    /\ last.op = "content"
    /\ last.err = "ok"
    /\ lists[<<"cite", "_content">>].list = <<"str", "str">>
    /\ lists[<<"cite", "_content">>].parent = "cite"

\* ------------------------------------------------------------------------
\* elements.py, base.py: the constructors as the codec calls them, on values
\* ------------------------------------------------------------------------

\* list(value): the items of a Python iterable (a non-empty str yields its
\* characters, which are str again)
Iterable(value) ==
    CASE value.j = "list" -> Returned(JList(value.l))
      [] value.j = "dict" ->
            Returned(JList([i \in 1..Len(value.l) |-> JStr(value.l[i].s)]))
      [] value.j = "str" ->
            Returned(JList(IF value.s = "" THEN <<>> ELSE <<value>>))
      [] OTHER -> Raised("TypeError")

\* ListContainer(value, oktypes=oktypes): TypeError unless every item is an
\* instance of oktypes
ListContainer(value, oktypes) ==
    Only({
      IF it.err # "ok" THEN it
      ELSE IF \A i \in 1..Len(it.val.l) :
                 check_value(it.val.l[i], {oktypes}).err = "ok"
      THEN it
      ELSE Raised("TypeError") :
      it \in {Iterable(value)}})

\* the elements held by a list of elements
Nodes(lst) == [i \in 1..Len(lst.l) |-> lst.l[i].e[1]]

\* the list of the elements of a container
Elems(nodes) == JList([i \in 1..Len(nodes) |-> JElem(nodes[i])])

\* identifier='', classes=None, attributes=None: the defaults of Block
DefaultIca == JList(<<JStr(""), JList(<<>>), JDict(<<>>)>>)

\* _decode_ica(lst)
decode_ica(lst) ==
    IF lst.j = "list" /\ Len(lst.l) >= 3
    THEN Returned(JList(SubSeq(lst.l, 1, 3)))
    ELSE Raised("IndexError")

\* OrderedDict(attributes) from a dict or from a list of [key, value] lists
attributes_dict(attributes) ==
    CASE attributes.j = "dict" -> Returned(JDict(OrderedDict(attributes.l)))
      [] /\ attributes.j = "list"
         /\ \A i \in 1..Len(attributes.l) :
               /\ attributes.l[i].j = "list"
               /\ Len(attributes.l[i].l) = 2
               /\ attributes.l[i].l[1].j = "str" ->
            Returned(JDict(OrderedDict(
                [i \in 1..Len(attributes.l) |->
                    JItem(attributes.l[i].l[1].s, attributes.l[i].l[2])])))
      [] OTHER -> Raised("TypeError")

\* Element._set_ica(identifier, classes, attributes)
set_ica(ica) ==
    Only({
      IF check_value(ica.l[1], {"str"}).err # "ok" THEN Raised("TypeError")
      ELSE IF classes.err # "ok" THEN classes
      ELSE IF \E i \in 1..Len(classes.val.l) : classes.val.l[i].j # "str"
      THEN Raised("TypeError")
      ELSE IF attrs.err # "ok" THEN attrs
      ELSE Returned(JList(<<ica.l[1], classes.val, attrs.val>>)) :
      classes \in {Iterable(ica.l[2])},
      attrs \in {attributes_dict(ica.l[3])}})

\* Element._ica_to_json
ica_to_json(f) ==
    JList(<<f[1], f[2],
            JList([i \in 1..Len(f[3].l) |->
                      JList(<<JStr(f[3].l[i].s), f[3].l[i].l[1]>>)])>>)

\* Inline.__init__(*args) for class c; extra are the fields set afterwards
Inline(c, args, extra) ==
    Only({
      IF content.err # "ok" THEN content
      ELSE Returned(JElem(Node(c, extra, <<Nodes(content.val)>>))) :
      content \in {ListContainer(JList(args), child_type(c))}})

\* Block.__init__(*args, identifier, classes, attributes) for class c; ica is
\* JNone when the keyword arguments are left out
Block(c, args, ica, extra) ==
    Only({
      IF r.err # "ok" THEN r
      ELSE IF content.err # "ok" THEN content
      ELSE Returned(JElem(Node(c, r.val.l \o extra,
                               <<Nodes(content.val)>>))) :
      r \in {set_ica(IF ica = JNone THEN DefaultIca ELSE ica)},
      content \in {ListContainer(JList(args), child_type(c))}})

\* InlineBlock.__init__(*args, **kwargs) for class c: the keyword arguments
\* go to Inline.__init__, which takes none
InlineBlock(c, args, ica, extra) ==
    IF ica # JNone THEN Raised("TypeError")
    ELSE Only({
           IF content.err # "ok" THEN content
           ELSE Returned(JElem(Node(c, DefaultIca.l \o extra,
                                    <<Nodes(content.val)>>))) :
           content \in {ListContainer(JList(args), "Inline")}})

\* Str(text)
Str(text) ==
    IF check_value(text, {"str"}).err # "ok" THEN Raised("TypeError")
    ELSE Returned(JElem(Node("Str", <<text>>, <<>>)))

\* Null(), Space(), HorizontalRule(), SoftBreak(), LineBreak()
Empty(c) == Returned(JElem(Node(c, <<>>, <<>>)))

\* Header(*args, level, **kwargs)
Header(args, level, ica) ==
    IF check_value(level, {"int"}).err # "ok" THEN Raised("TypeError")
    ELSE IF ~(0 < level.n /\ level.n <= 6) THEN Raised("TypeError")
    ELSE Block("Header", args, ica, <<level>>)

\* Quoted(*args, quote_type)
Quoted(args, quote_type) ==
    IF check_group(quote_type, QUOTE_TYPES).err # "ok"
    THEN Raised("TypeError")
    ELSE Inline("Quoted", args, <<quote_type>>)

\* Link(*args, url, title, **kwargs) and Image(*args, url, title, **kwargs)
Link(c, args, url, title, ica) ==
    Only({
      IF r.err # "ok" THEN r
      ELSE IF check_value(url, {"str"}).err # "ok" THEN Raised("TypeError")
      ELSE IF check_value(title, {"str"}).err # "ok"
      THEN Raised("TypeError")
      ELSE r :
      r \in {InlineBlock(c, args, ica, <<url, title>>)}})

\* CodeBlock(text, **kwargs)
CodeBlock(text, ica) ==
    IF check_value(text, {"str"}).err # "ok" THEN Raised("TypeError")
    ELSE Only({
           IF r.err # "ok" THEN r
           ELSE Returned(JElem(Node("CodeBlock", r.val.e[1].f, <<>>))) :
           r \in {Block("CodeBlock", <<>>, ica, <<text>>)}})

\* BlockText.__init__(text, format) for RawBlock and Code: no keyword
\* arguments besides text and format
BlockText(c, text, format, ica) ==
    IF ica # JNone THEN Raised("TypeError")
    ELSE IF check_value(text, {"str"}).err # "ok" THEN Raised("TypeError")
    ELSE IF check_group(format, RAW_FORMATS).err # "ok"
    THEN Raised("TypeError")
    ELSE Returned(JElem(Node(c, DefaultIca.l \o <<text, format>>, <<>>)))

\* InlineText.__init__(text, format) for Math and RawInline: format defaults
\* to the class's default_format and is checked against RAW_FORMATS
InlineText(c, text, format) ==
    LET fmt == IF format # JNone THEN format
               ELSE IF c = "Math" THEN JStr("DisplayMath") ELSE JStr("html")
    IN  IF check_value(text, {"str"}).err # "ok" THEN Raised("TypeError")
        ELSE IF check_group(fmt, RAW_FORMATS).err # "ok"
        THEN Raised("TypeError")
        ELSE Returned(JElem(Node(c, <<text, fmt>>, <<>>)))

\* Citation(id, mode, prefix, suffix, hash, note_num)
Citation(id, mode, prefix, suffix, hash, note_num) ==
    Only({
      IF \/ check_value(id, {"str"}).err # "ok"
         \/ check_group(mode, CITATION_MODE).err # "ok"
         \/ check_value(hash, {"int"}).err # "ok"
         \/ check_value(note_num, {"int"}).err # "ok"
      THEN Raised("TypeError")
      ELSE IF p.err # "ok" THEN p
      ELSE IF q.err # "ok" THEN q
      ELSE Returned(JElem(Node("Citation", <<id, mode, hash, note_num>>,
                               <<Nodes(p.val), Nodes(q.val)>>))) :
      p \in {ListContainer(prefix, "Inline")},
      q \in {ListContainer(suffix, "Inline")}})

\* Cite(*args, citations)
Cite(args, citations) ==
    Only({
      IF r.err # "ok" THEN r
      ELSE IF c.err # "ok" THEN c
      ELSE Returned(JElem(Node("Cite", <<>>,
                               r.val.e[1].k \o <<Nodes(c.val)>>))) :
      r \in {Inline("Cite", args, <<>>)},
      c \in {ListContainer(IF citations = JNone THEN JList(<<>>)
                           ELSE citations, "Citation")}})

\* OrderedList(*args, start, style, delimiter)
OrderedList(args, start, style, delimiter) ==
    Only({
      IF r.err # "ok" THEN r
      ELSE IF \/ check_value(start, {"int"}).err # "ok"
              \/ check_group(style, LIST_NUMBER_STYLES).err # "ok"
              \/ check_group(delimiter, LIST_NUMBER_DELIMITERS).err # "ok"
      THEN Raised("TypeError")
      ELSE r :
      r \in {Block("OrderedList", args, JNone, <<start, style, delimiter>>)}})

\* DefinitionItem(term, definitions)
DefinitionItem(term, definitions) ==
    Only({
      IF t.err # "ok" THEN t
      ELSE IF d.err # "ok" THEN d
      ELSE Returned(JElem(Node("DefinitionItem", <<>>,
                               <<Nodes(t.val), Nodes(d.val)>>))) :
      t \in {ListContainer(term, "Inline")},
      d \in {ListContainer(definitions, "Definition")}})

\* Table.header (setter) for a table of cols columns: the new header row (no
\* row when the value is empty or None)
Table_header(value, cols) ==
    IF value = JNone \/ (value.j \in {"list", "str", "dict"} /\ value.l = <<>>
                          /\ value.s = "")
    THEN Returned(JList(<<>>))
    ELSE Only({
           IF cells.err # "ok" THEN cells
           ELSE Only({
                  IF row.err # "ok" THEN row
                  ELSE IF Len(cells.val.l) # cols
                  THEN Raised("IndexError")
                  ELSE Returned(JList(<<row.val>>)) :
                  row \in {Block("TableRow", cells.val.l, JNone, <<>>)}}) :
           cells \in {IF value.j = "elem" /\ value.e[1].cls = "TableRow"
                      THEN Returned(Elems(value.e[1].k[1]))
                      ELSE Iterable(value)}})

\* Table.__init__ without the test of the number of alignments
Table_init_any_alignment(r, rows, cols, header, caption, alignment, width) ==
    Only({
      IF h.err # "ok" THEN h
      ELSE IF c.err # "ok" THEN c
      ELSE IF a.err # "ok" THEN a
      ELSE IF \E i \in 1..Len(a.val.l) :
                 check_group(a.val.l[i], TABLE_ALIGNMENT).err # "ok"
      THEN Raised("TypeError")
      ELSE IF w.err # "ok" THEN w
      ELSE IF \E i \in 1..Len(w.val.l) :
                 check_value(w.val.l[i], {"float", "int"}).err # "ok"
      THEN Raised("TypeError")
      ELSE IF Len(w.val.l) # cols THEN Raised("IndexError")
      ELSE Returned(JElem(Node(
               "Table",
               r.val.e[1].f \o <<a.val, w.val, JInt(rows), JInt(cols)>>,
               <<r.val.e[1].k[1], Nodes(h.val), Nodes(c.val)>>))) :
      h \in {header}, c \in {caption}, a \in {alignment}, w \in {width}})

\* the rest of Table.__init__ once the rows are stored: r is the table with
\* its rows, cols the number of cells of the first row, the other arguments
\* the outcomes of storing header, caption, alignment and width
Table_init(r, rows, cols, header, caption, alignment, width) ==
    Only({
      IF h.err # "ok" THEN h
      ELSE IF c.err # "ok" THEN c
      ELSE IF a.err # "ok" THEN a
      ELSE IF \E i \in 1..Len(a.val.l) :
                 check_group(a.val.l[i], TABLE_ALIGNMENT).err # "ok"
      THEN Raised("TypeError")
      ELSE IF Len(a.val.l) # cols THEN Raised("IndexError")
      ELSE IF w.err # "ok" THEN w
      ELSE IF \E i \in 1..Len(w.val.l) :
                 check_value(w.val.l[i], {"float", "int"}).err # "ok"
      THEN Raised("TypeError")
      ELSE IF Len(w.val.l) # cols THEN Raised("IndexError")
      ELSE Returned(JElem(Node(
               "Table",
               r.val.e[1].f \o <<a.val, w.val, JInt(rows), JInt(cols)>>,
               <<r.val.e[1].k[1], Nodes(h.val), Nodes(c.val)>>))) :
      h \in {header}, c \in {caption}, a \in {alignment}, w \in {width}})

\* Table(*args, header, caption, alignment, width)
Table(args, header, caption, alignment, width) ==
    Only({
      IF r.err # "ok" THEN r
      ELSE IF args = <<>> THEN Raised("IndexError")
      ELSE Only({
             Table_init(r, Len(args), cols, Table_header(header, cols),
                        ListContainer(IF caption = JNone
                                         \/ caption = JList(<<>>)
                                      THEN JList(<<>>) ELSE caption,
                                      "Inline"),
                        IF alignment = JNone
                        THEN Returned(JList([i \in 1..cols |->
                                                JStr("AlignDefault")]))
                        ELSE Iterable(alignment),
                        IF width = JNone
                        THEN Returned(JList([i \in 1..cols |-> JFloat]))
                        ELSE Iterable(width)) :
             cols \in {Len(args[1].e[1].k[1])}}) :
      r \in {Block("Table", args, JNone, <<>>)}})

\* MetaString(text)
MetaString(text) ==
    IF check_value(text, {"str"}).err # "ok" THEN Raised("TypeError")
    ELSE Returned(JElem(Node("MetaString", <<text>>, <<>>)))

\* MetaBool(boolean)
MetaBool(boolean) ==
    IF boolean.j # "bool" THEN Raised("TypeError")
    ELSE Returned(JElem(Node("MetaBool", <<boolean>>, <<>>)))

\* MetaInlines(*args) and MetaBlocks(*args): Element.__init__(*args) takes
\* at most identifier, parent and location
MetaContent(c, args) ==
    IF Len(args) > 3 THEN Raised("TypeError")
    ELSE Only({
           IF content.err # "ok" THEN content
           ELSE Returned(JElem(Node(c, <<>>, <<Nodes(content.val)>>))) :
           content \in {ListContainer(JList(args), child_type(c))}})

\* a (key, value) pair as MetaMap.__init__ unpacks it
pair_of(arg) ==
    CASE arg.j = "item" -> Returned(arg)
      [] arg.j = "list" /\ Len(arg.l) = 2 /\ arg.l[1].j = "str" ->
            Returned(JItem(arg.l[1].s, arg.l[2]))
      [] OTHER -> Raised("ValueError")

RECURSIVE builtin2meta(_)
RECURSIVE MetaList(_)
RECURSIVE MetaMap(_)
RECURSIVE builtin2meta_all(_)

\* builtin2meta(val)
builtin2meta(val) ==
    CASE val.j = "bool" -> MetaBool(val)
      [] val.j = "int" -> MetaString(JStr(ToString(val.n)))
      [] val.j = "float" -> MetaString(JStr(val.s))
      [] val.j = "list" -> MetaList(val.l)
      [] val.j = "dict" -> MetaMap(val.l)
      [] val.j = "elem" /\ "Block" \in Mro(val.e[1].cls) ->
            MetaContent("MetaBlocks", <<val>>)
      [] val.j = "elem" /\ "Inline" \in Mro(val.e[1].cls) ->
            MetaContent("MetaInlines", <<val>>)
      [] OTHER -> Returned(val)

\* [builtin2meta(v) for v in args]
builtin2meta_all(args) ==
    IF args = <<>> THEN Returned(JList(<<>>))
    ELSE Only({
           IF v.err # "ok" THEN v
           ELSE Only({
                  IF rest.err # "ok" THEN rest
                  ELSE Returned(JList(<<IF Head(args).j = "item"
                                        THEN JItem(Head(args).s, v.val)
                                        ELSE v.val>> \o rest.val.l)) :
                  rest \in {builtin2meta_all(Tail(args))}}) :
           v \in {builtin2meta(IF Head(args).j = "item"
                               THEN Head(args).l[1] ELSE Head(args))}})

\* MetaList(*args)
MetaList(args) ==
    IF Len(args) > 3 THEN Raised("TypeError")
    ELSE Only({
           IF items.err # "ok" THEN items
           ELSE LET content == ListContainer(items.val, "MetaValue")
                IN  IF content.err # "ok" THEN content
                    ELSE Returned(JElem(Node("MetaList", <<>>,
                                             <<Nodes(content.val)>>))) :
           items \in {builtin2meta_all(args)}})

\* MetaMap(*args) with (key, value) arguments
MetaMap(args) ==
    IF Len(args) > 3 THEN Raised("TypeError")
    ELSE IF \E i \in 1..Len(args) : pair_of(args[i]).err # "ok"
    THEN Raised("ValueError")
    ELSE Only({
           IF items.err # "ok" THEN items
           ELSE IF \E i \in 1..Len(items.val.l) :
                      check_value(items.val.l[i].l[1],
                                  {"MetaValue"}).err # "ok"
           THEN Raised("TypeError")
           ELSE LET d == OrderedDict(items.val.l)
                IN  Returned(JElem(Node(
                        "MetaMap",
                        [i \in 1..Len(d) |-> JStr(d[i].s)],
                        <<[i \in 1..Len(d) |-> d[i].l[1].e[1]]>>))) :
           items \in {builtin2meta_all([i \in 1..Len(args) |->
                                          pair_of(args[i]).val])}})

\* the (key, value) items of a MetaMap element
MetaMap_items(node) ==
    [i \in 1..Len(node.f) |-> JItem(node.f[i].s, JElem(node.k[1][i]))]

\* tuple(a) <= tuple(b) on tuples of ints
RECURSIVE TupleLeq(_, _)
TupleLeq(a, b) ==
    IF a = <<>> THEN TRUE
    ELSE IF b = <<>> THEN FALSE
    ELSE IF Head(a).n # Head(b).n THEN Head(a).n < Head(b).n
    ELSE TupleLeq(Tail(a), Tail(b))

\* Doc.metadata (setter): the MetaMap built from the assigned value
Doc_metadata(value) ==
    CASE value.j = "elem" /\ value.e[1].cls = "MetaMap" ->
            MetaMap(MetaMap_items(value.e[1]))
      [] value.j = "dict" -> MetaMap(OrderedDict(value.l))
      [] value.j = "list" /\ \A i \in 1..Len(value.l) :
                                pair_of(value.l[i]).err = "ok" ->
            MetaMap(OrderedDict([i \in 1..Len(value.l) |->
                                    pair_of(value.l[i]).val]))
      [] OTHER -> Raised("TypeError")

\* Doc(*args, metadata, api_version)
Doc(args, metadata, api_version) ==
    Only({
      IF content.err # "ok" THEN content
      ELSE IF meta.err # "ok" THEN meta
      ELSE IF api_version # JNone /\ api_version.j # "list"
      THEN Raised("TypeError")
      ELSE IF api_version # JNone /\ Len(api_version.l) > 4
      THEN Raised("TypeError")
      ELSE IF /\ api_version # JNone
              /\ \/ \E i \in 1..Len(api_version.l) :
                       api_version.l[i].j \notin {"int", "bool"}
                 \/ TupleLeq(api_version.l, <<JInt(1), JInt(17), JInt(0)>>)
      THEN Raised("TypeError")
      ELSE Returned(JElem(Node("Doc", <<api_version>>,
                               <<Nodes(content.val), <<meta.val.e[1]>>>>))) :
      content \in {ListContainer(JList(args), "Block")},
      meta \in {Doc_metadata(IF metadata = JNone THEN JDict(<<>>)
                             ELSE metadata)}})

\* ------------------------------------------------------------------------
\* to_json: elements.py, base.py, containers.py
\* ------------------------------------------------------------------------

\* {'t': value}: how _slots_to_json and Citation.to_json write an enum value
enum_to_json(value) == JDict(<<JItem("t", value)>>)

\* encode_dict(value, []): how the _legacy variants write an enum value
enum_to_json_legacy(value) == encode_dict(value.s, JList(<<>>))

\* classes whose to_json writes {'t': tag} only
EMPTY_ELEMENTS == {"Null", "Space", "HorizontalRule", "SoftBreak", "LineBreak"}

RECURSIVE to_json(_)
RECURSIVE slots_to_json(_)

\* ListContainer.to_json
ListContainer_to_json(nodes) ==
    JList([i \in 1..Len(nodes) |-> to_json(nodes[i])])

\* DictContainer.to_json of a MetaMap's content
DictContainer_to_json(node) ==
    JDict([i \in 1..Len(node.f) |-> JItem(node.f[i].s, to_json(node.k[1][i]))])

\* Citation.to_json
Citation_to_json(node) ==
    JDict(<<JItem("citationSuffix", ListContainer_to_json(node.k[2])),
            JItem("citationNoteNum", node.f[4]),
            JItem("citationMode", enum_to_json(node.f[2])),
            JItem("citationPrefix", ListContainer_to_json(node.k[1])),
            JItem("citationId", node.f[1]),
            JItem("citationHash", node.f[3])>>)

\* Table._slots_to_json
Table_slots_to_json(node) ==
    LET cols == node.f[7].n
    IN  JList(<<ListContainer_to_json(node.k[3]),
                JList([i \in 1..Len(node.f[4].l) |->
                          enum_to_json(node.f[4].l[i])]),
                node.f[5],
                IF node.k[2] = <<>>
                THEN JList([i \in 1..cols |-> JList(<<>>)])
                ELSE to_json(node.k[2][1]),
                ListContainer_to_json(node.k[1])>>)

\* Doc.to_json
Doc_to_json(node) ==
    LET meta   == DictContainer_to_json(node.k[2][1])
        blocks == ListContainer_to_json(node.k[1])
    IN  IF node.f[1] = JNone
        THEN JList(<<JDict(<<JItem("unMeta", meta)>>), blocks>>)
        ELSE JDict(<<JItem("pandoc-api-version", node.f[1]),
                     JItem("meta", meta), JItem("blocks", blocks)>>)

\* _slots_to_json as the class of node defines or inherits it
slots_to_json(node) ==
    LET c == node.cls
    IN  CASE c \in {"Str", "MetaString", "MetaBool"} -> node.f[1]
          [] c = "Header" ->
                JList(<<node.f[4], ica_to_json(node.f),
                        ListContainer_to_json(node.k[1])>>)
          [] c \in {"Div", "Span"} ->
                JList(<<ica_to_json(node.f),
                        ListContainer_to_json(node.k[1])>>)
          [] c = "Quoted" ->
                JList(<<enum_to_json(node.f[1]),
                        ListContainer_to_json(node.k[1])>>)
          [] c = "Cite" ->
                JList(<<ListContainer_to_json(node.k[2]),
                        ListContainer_to_json(node.k[1])>>)
          [] c \in {"Link", "Image"} ->
                JList(<<ica_to_json(node.f),
                        ListContainer_to_json(node.k[1]),
                        JList(<<node.f[4], node.f[5]>>)>>)
          [] c \in {"CodeBlock", "Code"} ->
                JList(<<ica_to_json(node.f), node.f[4]>>)
          [] c = "RawBlock" -> JList(<<node.f[5], node.f[4]>>)
          [] c = "Math" -> JList(<<enum_to_json(node.f[2]), node.f[1]>>)
          [] c = "RawInline" -> JList(<<node.f[2], node.f[1]>>)
          [] c = "OrderedList" ->
                JList(<<JList(<<node.f[4], enum_to_json(node.f[5]),
                                enum_to_json(node.f[6])>>),
                        ListContainer_to_json(node.k[1])>>)
          [] c = "Table" -> Table_slots_to_json(node)
          [] c = "MetaMap" -> DictContainer_to_json(node)
          [] OTHER -> ListContainer_to_json(node.k[1])

\* to_json of an element: the overrides of Doc, the empty classes, Citation
\* and DefinitionItem, else Element.to_json
to_json(node) ==
    CASE node.cls = "Doc" -> Doc_to_json(node)
      [] node.cls \in EMPTY_ELEMENTS -> JDict(<<JItem("t", JStr(node.cls))>>)
      [] node.cls = "Citation" -> Citation_to_json(node)
      [] node.cls = "DefinitionItem" ->
            JList(<<ListContainer_to_json(node.k[1]),
                    ListContainer_to_json(node.k[2])>>)
      [] OTHER -> encode_dict(node.cls, slots_to_json(node))

\* ------------------------------------------------------------------------
\* from_json: elements.py
\* ------------------------------------------------------------------------

\* c has the shape c[0] .. c[n-1]
Indexable(c, n) == c.j = "list" /\ Len(c.l) >= n

\* c[i]
Item(c, i) == c.l[i + 1]

\* calls each(x) on every item of a list and collects the results
RECURSIVE decode_each(_, _)
decode_each(kind, items) ==
    IF items = <<>> THEN Returned(JList(<<>>))
    ELSE LET x == Head(items)
             args == Iterable(x)
             r == CASE kind = "citation" ->
                         IF x.j # "dict" THEN Raised("TypeError")
                         ELSE IF \E key \in {"citationId", "citationMode",
                                    "citationPrefix", "citationSuffix",
                                    "citationHash", "citationNoteNum"} :
                                    ~HasKey(x, key)
                         THEN Raised("KeyError")
                         ELSE Citation(Get(x, "citationId"),
                                       Get(x, "citationMode"),
                                       Get(x, "citationPrefix"),
                                       Get(x, "citationSuffix"),
                                       Get(x, "citationHash"),
                                       Get(x, "citationNoteNum"))
                    [] args.err # "ok" -> args
                    [] kind = "definition_item" ->
                         IF Len(args.val.l) # 2 THEN Raised("ValueError")
                         ELSE IF Iterable(args.val.l[2]).err # "ok"
                         THEN Raised("TypeError")
                         ELSE Only({
                                IF d.err # "ok" THEN d
                                ELSE DefinitionItem(args.val.l[1], d.val) :
                                d \in {decode_each("Definition",
                                          Iterable(args.val.l[2]).val.l)}})
                    [] kind = "row" ->
                         Only({
                           IF cells.err # "ok" THEN cells
                           ELSE Block("TableRow", cells.val.l, JNone, <<>>) :
                           cells \in {decode_each("TableCell", args.val.l)}})
                    [] OTHER -> Block(kind, args.val.l, JNone, <<>>)
         IN  Only({
               IF r1.err # "ok" THEN r1
               ELSE Only({
                      IF rest.err # "ok" THEN rest
                      ELSE Returned(JList(<<r1.val>> \o rest.val.l)) :
                      rest \in {decode_each(kind, Tail(items))}}) :
               r1 \in {r}})

\* [f(x) for x in c]: TypeError when c is not iterable
decode_all(kind, c) ==
    IF Iterable(c).err # "ok" THEN Raised("TypeError")
    ELSE decode_each(kind, Iterable(c).val.l)

\* from_json, the branch taken for tag with payload c
from_json_tag(tag, c) ==
    LET args == Iterable(c)
        star == IF args.err = "ok" THEN args.val.l ELSE <<>>
    IN  CASE tag = "Str" -> Str(c)
          [] tag \in EMPTY_ELEMENTS -> Empty(tag)
          [] tag \in {"Plain", "Para", "BlockQuote"} ->
                IF args.err # "ok" THEN args
                ELSE Block(tag, star, JNone, <<>>)
          [] tag \in {"Emph", "Strong", "Strikeout", "Superscript",
                      "Subscript", "SmallCaps"} ->
                IF args.err # "ok" THEN args ELSE Inline(tag, star, <<>>)
          [] tag = "Note" ->
                IF args.err # "ok" THEN args
                ELSE LET r == InlineBlock(tag, star, JNone, <<>>)
                     IN  IF r.err # "ok" THEN r
                         ELSE Block(tag, star, JNone, <<>>)
          [] tag \in {"Div", "Span", "CodeBlock", "Code"}
               /\ (~Indexable(c, 2) \/ decode_ica(Item(c, 0)).err # "ok") ->
                Raised("IndexError")
          [] tag = "Div" ->
                IF Iterable(Item(c, 1)).err # "ok" THEN Raised("TypeError")
                ELSE Block(tag, Iterable(Item(c, 1)).val.l,
                           decode_ica(Item(c, 0)).val, <<>>)
          [] tag = "Span" ->
                IF Iterable(Item(c, 1)).err # "ok" THEN Raised("TypeError")
                ELSE InlineBlock(tag, Iterable(Item(c, 1)).val.l,
                                 decode_ica(Item(c, 0)).val, <<>>)
          [] tag = "Header" ->
                IF ~Indexable(c, 3) \/ decode_ica(Item(c, 1)).err # "ok"
                THEN Raised("IndexError")
                ELSE IF Iterable(Item(c, 2)).err # "ok"
                THEN Raised("TypeError")
                ELSE Header(Iterable(Item(c, 2)).val.l, Item(c, 0),
                            decode_ica(Item(c, 1)).val)
          [] tag = "Quoted" ->
                IF ~Indexable(c, 2) THEN Raised("IndexError")
                ELSE IF Iterable(Item(c, 1)).err # "ok"
                THEN Raised("TypeError")
                ELSE Quoted(Iterable(Item(c, 1)).val.l, Item(c, 0))
          [] tag \in {"Link", "Image"} ->
                IF \/ ~Indexable(c, 3)
                   \/ ~Indexable(Item(c, 2), 2)
                   \/ decode_ica(Item(c, 0)).err # "ok"
                THEN Raised("IndexError")
                ELSE IF Iterable(Item(c, 1)).err # "ok"
                THEN Raised("TypeError")
                ELSE Link(tag, Iterable(Item(c, 1)).val.l,
                          Item(Item(c, 2), 0), Item(Item(c, 2), 1),
                          decode_ica(Item(c, 0)).val)
          [] tag = "CodeBlock" ->
                CodeBlock(Item(c, 1), decode_ica(Item(c, 0)).val)
          [] tag = "Code" ->
                BlockText(tag, Item(c, 1), JStr("html"),
                          decode_ica(Item(c, 0)).val)
          [] tag \in {"RawBlock", "Math", "RawInline"} /\ ~Indexable(c, 2) ->
                Raised("IndexError")
          [] tag = "RawBlock" -> BlockText(tag, Item(c, 1), Item(c, 0), JNone)
          [] tag \in {"Math", "RawInline"} ->
                InlineText(tag, Item(c, 1), Item(c, 0))
          [] tag = "Cite" ->
                IF ~Indexable(c, 2) THEN Raised("IndexError")
                ELSE LET items == decode_all("citation", Item(c, 0))
                     IN  IF items.err # "ok" THEN items
                         ELSE IF Iterable(Item(c, 1)).err # "ok"
                         THEN Raised("TypeError")
                         ELSE Cite(Iterable(Item(c, 1)).val.l, items.val)
          [] tag = "BulletList" ->
                LET items == decode_all("ListItem", c)
                IN  IF items.err # "ok" THEN items
                    ELSE Block(tag, items.val.l, JNone, <<>>)
          [] tag = "OrderedList" ->
                IF ~Indexable(c, 2) \/ ~Indexable(Item(c, 0), 3)
                THEN Raised("IndexError")
                ELSE LET items == decode_all("ListItem", Item(c, 1))
                     IN  IF items.err # "ok" THEN items
                         ELSE OrderedList(items.val.l, Item(Item(c, 0), 0),
                                          Item(Item(c, 0), 1),
                                          Item(Item(c, 0), 2))
          [] tag = "DefinitionList" ->
                LET items == decode_all("definition_item", c)
                IN  IF items.err # "ok" THEN items
                    ELSE Block(tag, items.val.l, JNone, <<>>)
          [] tag = "LineBlock" ->
                LET items == decode_all("LineItem", c)
                IN  IF items.err # "ok" THEN items
                    ELSE Block(tag, items.val.l, JNone, <<>>)
          [] tag = "Table" ->
                IF ~Indexable(c, 5) THEN Raised("IndexError")
                ELSE LET header == decode_all("row", JList(<<Item(c, 3)>>))
                         data   == decode_all("row", Item(c, 4))
                     IN  IF header.err # "ok" THEN header
                         ELSE IF data.err # "ok" THEN data
                         ELSE Table(data.val.l, header.val.l[1], Item(c, 0),
                                    Item(c, 1), Item(c, 2))
          [] tag = "MetaList" ->
                IF args.err # "ok" THEN args ELSE MetaList(star)
          [] tag = "MetaMap" ->
                IF c.j # "dict" THEN Raised("AttributeError")
                ELSE MetaMap(c.l)
          [] tag \in {"MetaInlines", "MetaBlocks"} ->
                IF args.err # "ok" THEN args ELSE MetaContent(tag, star)
          [] tag = "MetaString" -> MetaString(c)
          [] tag = "MetaBool" ->
                IF c.j # "bool" THEN Raised("AssertionError")
                ELSE MetaBool(c)
          [] tag \in SPECIAL_ELEMENTS -> Returned(JStr(tag))
          [] OTHER -> Raised("Exception")

\* from_json(data): data holds the (key, value) pairs of one JSON object,
\* the values already decoded
from_json(pairs) ==
    Only({
      CASE HasKey(data, "unMeta") ->
              IF Len(data.l) # 1 THEN Raised("AssertionError")
              ELSE IF Get(data, "unMeta").j # "dict"
              THEN Raised("AttributeError")
              ELSE MetaMap(Get(data, "unMeta").l)
        [] HasKey(data, "pandoc-api-version") ->
              IF Len(data.l) # 3 THEN Raised("AssertionError")
              ELSE IF ~HasKey(data, "meta") \/ ~HasKey(data, "blocks")
              THEN Raised("KeyError")
              ELSE IF Iterable(Get(data, "blocks")).err # "ok"
              THEN Raised("TypeError")
              ELSE Doc(Iterable(Get(data, "blocks")).val.l,
                       Get(data, "meta"),
                       Get(data, "pandoc-api-version"))
        [] ~HasKey(data, "t") -> Returned(data)
        [] ~(Len(data.l) = 1 \/ (Len(data.l) = 2 /\ HasKey(data, "c"))) ->
              Raised("AssertionError")
        [] Get(data, "t").j # "str" -> Raised("TypeError")
        [] OTHER -> Only({from_json_tag(Get(data, "t").s, c) :
                             c \in {Get(data, "c")}}) :
      data \in {JDict(OrderedDict(pairs.l))}})

\* json.load(..., object_pairs_hook=from_json): every JSON object is handed
\* to from_json once its members are decoded
RECURSIVE json_load(_)
RECURSIVE json_load_all(_)
json_load_all(items) ==
    IF items = <<>> THEN Returned(JList(<<>>))
    ELSE LET x == Head(items)
         IN  Only({
               IF r.err # "ok" THEN r
               ELSE Only({
                      IF rest.err # "ok" THEN rest
                      ELSE Returned(JList(<<IF x.j = "item"
                                            THEN JItem(x.s, r.val)
                                            ELSE r.val>> \o rest.val.l)) :
                      rest \in {json_load_all(Tail(items))}}) :
               r \in {json_load(IF x.j = "item" THEN x.l[1] ELSE x)}})

json_load(value) ==
    CASE value.j = "list" -> json_load_all(value.l)
      [] value.j = "dict" ->
            Only({
              IF members.err # "ok" THEN members
              ELSE from_json(JDict(members.val.l)) :
              members \in {json_load_all(value.l)}})
      [] OTHER -> Returned(value)

\* load: a legacy document decodes to the list [metadata, items], which is
\* turned into a Doc
load(value) ==
    Only({
      IF doc.err # "ok" THEN doc
      ELSE IF doc.val.j = "elem" /\ doc.val.e[1].cls = "Doc" THEN doc
      ELSE IF ~(doc.val.j = "list" /\ Len(doc.val.l) = 2)
      THEN Raised("ValueError")
      ELSE IF doc.val.l[2].j # "list" THEN Raised("AssertionError")
      ELSE Doc(doc.val.l[2].l, doc.val.l[1], JNone) :
      doc \in {json_load(value)}})

\* ------------------------------------------------------------------------
\* Specification SpecCodec: a program that builds one element, writes it
\* with to_json and decodes what was written
\* ------------------------------------------------------------------------

\* the elements that the constructor calls in outcomes returned
Built(outcomes) == {r.val : r \in {o \in outcomes : o.err = "ok"}}

SampleText == {JStr("a"), JStr("b")}

\* keyword arguments identifier, classes, attributes: left out, or given
\* with two attributes
SampleIca ==
    {JNone,
     JList(<<JStr("id"), JList(<<JStr("c1")>>),
             JList(<<JList(<<JStr("k2"), JStr("v")>>),
                     JList(<<JStr("k1"), JStr("w")>>)>>)>>)}

SampleStrs == Built({Str(t) : t \in SampleText})

SampleCitations ==
    Built({Citation(JStr("id"), JStr(m), JList(<<x>>), JStr(""), JInt(0),
                    JInt(0)) :
              m \in {"NormalCitation", "AuthorInText"}, x \in SampleStrs})

SampleInlines ==
    SampleStrs
      \cup Built({Empty("Space")})
      \cup Built({Inline("Emph", <<x>>, <<>>) : x \in SampleStrs})
      \cup Built({Quoted(<<x>>, JStr(q)) :
                     x \in SampleStrs, q \in QUOTE_TYPES})
      \cup Built({InlineBlock("Span", <<x>>, ica, <<>>) :
                     x \in SampleStrs, ica \in SampleIca})
      \cup Built({Link(c, <<x>>, JStr("u"), JStr("t"), ica) :
                     c \in {"Link", "Image"}, x \in SampleStrs,
                     ica \in SampleIca})
      \cup Built({InlineText(c, JStr("x"), f) :
                     c \in {"Math", "RawInline"},
                     f \in {JNone, JStr("InlineMath"), JStr("tex")}})
      \cup Built({Cite(<<x>>, JList(<<c>>)) :
                     x \in SampleStrs, c \in SampleCitations})

SampleParas ==
    Built({Block("Para", args, JNone, <<>>) :
              args \in BoundedSeq(
                  SampleStrs \cup Built({Empty("Space")})
                    \cup Built({Quoted(<<x>>, JStr(q)) :
                                   x \in SampleStrs, q \in QUOTE_TYPES}),
                  MaxArgs)})

\* paragraphs of one Str, to put inside other blocks
OneParas == Built({Block("Para", <<x>>, JNone, <<>>) : x \in SampleStrs})

SampleRows ==
    Built({Block("TableRow", cells, JNone, <<>>) :
              cells \in BoundedSeq(
                  Built({Block("TableCell", args, JNone, <<>>) :
                            args \in {<<>>} \cup {<<x>> : x \in OneParas}}),
                  MaxArgs) \ {<<>>}})

SampleTables ==
    Built(UNION {
             {Table(<<row>>, header, caption, alignment, JNone) :
                 header \in {JNone, row},
                 caption \in {JNone} \cup {JList(<<x>>) : x \in SampleStrs},
                 alignment \in {JNone, JList(<<JStr("AlignLeft")>>)}} :
             row \in SampleRows})

SampleLists ==
    LET items == Built({Block("ListItem", <<x>>, JNone, <<>>) :
                           x \in OneParas})
        defs  == Built({Block("Definition", <<x>>, JNone, <<>>) :
                           x \in OneParas})
        ditems == Built({DefinitionItem(JList(<<t>>), JList(<<d>>)) :
                            t \in SampleStrs, d \in defs})
    IN  Built({Block("BulletList", args, JNone, <<>>) :
                  args \in BoundedSeq(items, MaxArgs)})
          \cup Built({OrderedList(<<x>>, JInt(1), JStr(st), JStr(d)) :
                         x \in items, st \in {"Decimal", "LowerAlpha"},
                         d \in {"Period", "OneParen"}})
          \cup Built({Block("DefinitionList", <<x>>, JNone, <<>>) :
                         x \in ditems})

SampleBlocks ==
    SampleParas
      \cup Built({Empty("Null")})
      \cup Built({Header(<<x>>, JInt(n), ica) :
                     x \in SampleStrs, n \in 0..2, ica \in SampleIca})
      \cup Built({Block("Div", <<x>>, ica, <<>>) :
                     x \in OneParas, ica \in SampleIca})
      \cup Built({CodeBlock(t, ica) : t \in SampleText, ica \in SampleIca})
      \cup Built({BlockText(c, t, JStr(f), JNone) :
                     c \in {"RawBlock", "Code"}, t \in SampleText,
                     f \in {"html", "docx"}})
      \cup SampleLists
      \cup SampleTables

SampleMeta ==
    LET scalars == Built({MetaString(t) : t \in SampleText})
                     \cup Built({MetaBool(JBool(b)) : b \in BOOLEAN})
        values  == scalars
                     \cup Built({MetaContent("MetaInlines", args) :
                                    args \in BoundedSeq(SampleStrs, MaxArgs)})
                     \cup Built({MetaContent("MetaBlocks", <<x>>) :
                                    x \in OneParas})
    IN  values
          \cup Built({MetaList(args) : args \in BoundedSeq(scalars, MaxArgs)})
          \cup Built({MetaMap(<<JItem(key, x)>>) :
                         key \in {"title", "t"}, x \in values})

\* the blocks documents are made of
DocBlocks ==
    LET a    == Str(JStr("a")).val
        para == Block("Para", <<a>>, JNone, <<>>).val
        item == Block("ListItem", <<para>>, JNone, <<>>).val
        cell == Block("TableCell", <<para>>, JNone, <<>>).val
        row  == Block("TableRow", <<cell>>, JNone, <<>>).val
    IN  Built({Block("Para", <<a>>, JNone, <<>>),
               Block("Para", <<Quoted(<<a>>, JStr("DoubleQuote")).val>>,
                     JNone, <<>>),
               Header(<<a>>, JInt(1), JNone),
               Block("BulletList", <<item>>, JNone, <<>>),
               OrderedList(<<item>>, JInt(1), JStr("Decimal"),
                           JStr("Period")),
               Table(<<row>>, JNone, JNone, JNone, JNone)})

SampleDocs ==
    Built({Doc(args, metadata, api_version) :
              args \in BoundedSeq(DocBlocks, MaxArgs),
              metadata \in {JNone, JDict(<<JItem("title", JInt(1))>>),
                            JDict(<<JItem("title", JBool(TRUE)),
                                    JItem("author",
                                          MetaContent("MetaInlines",
                                              <<Str(JStr("a")).val>>).val)>>)},
              api_version \in {JNone,
                               JList(<<JInt(1), JInt(17), JInt(0)>>),
                               JList(<<JInt(1), JInt(18)>>),
                               JList(<<JInt(1), JInt(17), JInt(0),
                                       JInt(4)>>)}})

\* every element the program may hand to to_json
Representative ==
    SampleInlines \cup SampleBlocks \cup SampleMeta \cup SampleDocs

InitCodec ==
    /\ cls = EmptyHeap.cls
    /\ parent = EmptyHeap.parent
    /\ location = EmptyHeap.location
    /\ lists = EmptyHeap.lists
    /\ dicts = EmptyHeap.dicts
    /\ last = [op |-> "init", err |-> "ok", ret |-> None]
    /\ action = <<>>
    /\ visited = <<>>
    /\ walked = NotWalked
    /\ source \in Representative
    /\ wire = JNone
    /\ decoded = NotDecoded

\* wire = source.to_json()
Encode ==
    /\ wire = JNone
    /\ wire' = to_json(source.e[1])
    /\ UNCHANGED <<cls, parent, location, lists, dicts, last, walkvars,
                   source, decoded>>

\* decoded = load(wire) for a document, else wire with from_json applied to
\* every JSON object, innermost first
Decode ==
    /\ wire # JNone
    /\ decoded = NotDecoded
    /\ decoded' = IF source.e[1].cls = "Doc" THEN load(wire)
                  ELSE json_load(wire)
    /\ UNCHANGED <<cls, parent, location, lists, dicts, last, walkvars,
                   source, wire>>

NextCodec ==
    \/ Encode
    \/ Decode

SpecCodec == InitCodec /\ [][NextCodec]_vars

\* ------------------------------------------------------------------------
\* elements.py: writes into metadata containers
\* ------------------------------------------------------------------------

\* the MetaMap element over the given (key, element) items
MetaMap_of(items) ==
    JElem(Node("MetaMap", [i \in 1..Len(items) |-> JStr(items[i].s)],
               <<[i \in 1..Len(items) |-> items[i].l[1].e[1]]>>))

\* the MetaList element over the given elements
MetaList_of(members) == JElem(Node("MetaList", <<>>, <<Nodes(JList(members))>>))

\* DictContainer.__setitem__ on the content of a MetaMap
MetaMap_content_setitem(node, k, v) ==
    IF check_value(v, {"MetaValue"}).err # "ok" THEN Raised("TypeError")
    ELSE Returned(MetaMap_of(OrderedDict(Append(MetaMap_items(node),
                                                JItem(k, v)))))

\* MetaMap.__setitem__
MetaMap_setitem(node, i, v) ==
    Only({IF c.err # "ok" THEN c ELSE MetaMap_content_setitem(node, i, c.val) :
          c \in {builtin2meta(v)}})

\* MetaMap.content (setter): a dict has no attribute 'dict'; any other value
\* is unpacked into (key, value) pairs that DictContainer.update stores with
\* __setitem__
MetaMap_content_setter(node, value) ==
    IF value.j = "dict" THEN Raised("AttributeError")
    ELSE Only({
           IF it.err # "ok" THEN it
           ELSE IF \E i \in 1..Len(it.val.l) : pair_of(it.val.l[i]).err # "ok"
           THEN Raised("ValueError")
           ELSE IF \E i \in 1..Len(it.val.l) :
                      check_value(pair_of(it.val.l[i]).val.l[1],
                                  {"MetaValue"}).err # "ok"
           THEN Raised("TypeError")
           ELSE Returned(MetaMap_of(OrderedDict(
                    [i \in 1..Len(it.val.l) |-> pair_of(it.val.l[i]).val]))) :
           it \in {Iterable(value)}})

\* ListContainer.__setitem__ on the content of a MetaList
MetaList_content_setitem(node, i, v) ==
    IF check_value(v, {"MetaValue"}).err # "ok" THEN Raised("TypeError")
    ELSE IF ~PyIndexOk(i, Len(node.k[1])) THEN Raised("IndexError")
    ELSE Returned(MetaList_of(
             [j \in 1..Len(node.k[1]) |->
                 IF j = PyIndex(i, Len(node.k[1])) + 1 THEN v
                 ELSE JElem(node.k[1][j])]))

\* MetaList.__setitem__
MetaList_setitem(node, i, v) ==
    Only({IF c.err # "ok" THEN c ELSE MetaList_content_setitem(node, i, c.val) :
          c \in {builtin2meta(v)}})

\* MetaList.append: self.content.append(i), that is insert(len, i)
MetaList_append(node, i) ==
    IF check_value(i, {"MetaValue"}).err # "ok" THEN Raised("TypeError")
    ELSE Returned(MetaList_of(Append(Elems(node.k[1]).l, i)))

\* native values and elements the program writes into metadata
MetaInputs ==
    {JBool(TRUE), JInt(1), JStr("x"),
     JList(<<JInt(1), JStr("x")>>), JList(<<JBool(TRUE)>>),
     JDict(<<JItem("k", JInt(1))>>),
     Str(JStr("a")).val,
     Block("Para", <<Str(JStr("a")).val>>, JNone, <<>>).val,
     MetaString(JStr("s")).val}

MetaKeys == {"title", "author"}

\* source is the metadata container, wire the value written last, decoded
\* the outcome of the write and last.ret the key or index written
InitMeta ==
    /\ cls = EmptyHeap.cls
    /\ parent = EmptyHeap.parent
    /\ location = EmptyHeap.location
    /\ lists = EmptyHeap.lists
    /\ dicts = EmptyHeap.dicts
    /\ last = [op |-> "init", err |-> "ok", ret |-> None]
    /\ action = <<>>
    /\ visited = <<>>
    /\ walked = NotWalked
    /\ source \in {MetaMap_of(<<>>), MetaList_of(<<>>)}
    /\ wire = JNone
    /\ decoded = NotDecoded

\* a write of v at key or index at with outcome r
Write(op, at, v, r) ==
    /\ last' = [op |-> op, err |-> r.err, ret |-> at]
    /\ wire' = v
    /\ decoded' = r
    /\ source' = IF r.err = "ok" THEN r.val ELSE source
    /\ UNCHANGED <<cls, parent, location, lists, dicts, walkvars>>

\* source = MetaMap((k, v))
NewMetaMap ==
    \E k \in MetaKeys, v \in MetaInputs :
       /\ source # JNone
       /\ \E r \in {MetaMap(<<JItem(k, v)>>)} : Write("MetaMap", k, v, r)

\* source = MetaList(v)
NewMetaList ==
    \E v \in MetaInputs :
       /\ source # JNone
       /\ \E r \in {MetaList(<<v>>)} : Write("MetaList", "0", v, r)

\* source[k] = v on a MetaMap
MetaMapSetItem ==
    \E k \in MetaKeys, v \in MetaInputs :
       /\ source.e[1].cls = "MetaMap"
       /\ \E r \in {MetaMap_setitem(source.e[1], k, v)} :
             Write("MetaMap.__setitem__", k, v, r)

\* source.content[k] = v on a MetaMap
MetaMapContentSetItem ==
    \E k \in MetaKeys, v \in MetaInputs :
       /\ source.e[1].cls = "MetaMap"
       /\ \E r \in {MetaMap_content_setitem(source.e[1], k, v)} :
             Write("DictContainer.__setitem__", k, v, r)

\* source.content = {k: v} and source.content = [(k, v)] on a MetaMap
MetaMapSetContent ==
    \E k \in MetaKeys, v \in MetaInputs, asdict \in BOOLEAN :
       /\ source.e[1].cls = "MetaMap"
       /\ \E r \in {MetaMap_content_setter(
                       source.e[1],
                       IF asdict THEN JDict(<<JItem(k, v)>>)
                       ELSE JList(<<JList(<<JStr(k), v>>)>>))} :
             Write("MetaMap.content", k, v, r)

\* doc.metadata = {k: v}; source is the MetaMap the document holds
DocSetMetadata ==
    \E k \in MetaKeys, v \in MetaInputs :
       /\ source # JNone
       /\ \E r \in {Doc_metadata(JDict(<<JItem(k, v)>>))} :
             Write("Doc.metadata", k, v, r)

\* source[i] = v on a MetaList
MetaListSetItem ==
    \E i \in 0..MaxArgs, v \in MetaInputs :
       /\ source.e[1].cls = "MetaList"
       /\ \E r \in {MetaList_setitem(source.e[1], i, v)} :
             Write("MetaList.__setitem__", ToString(i), v, r)

\* source.append(v) on a MetaList
MetaListAppend ==
    \E v \in MetaInputs :
       /\ source.e[1].cls = "MetaList"
       /\ Len(source.e[1].k[1]) < MaxArgs
       /\ \E r \in {MetaList_append(source.e[1], v)} :
             Write("MetaList.append", ToString(Len(source.e[1].k[1])), v, r)

NextMeta ==
    \/ NewMetaMap
    \/ NewMetaList
    \/ MetaMapSetItem
    \/ MetaMapContentSetItem
    \/ MetaMapSetContent
    \/ DocSetMetadata
    \/ MetaListSetItem
    \/ MetaListAppend

SpecMeta == InitMeta /\ [][NextMeta]_vars

\* ------------------------------------------------------------------------
\* elements.py: calls of Doc, Table and from_json on given arguments
\* ------------------------------------------------------------------------

\* the components of the api versions handed to Doc
ApiInts == {-1, 0, 1, 17, 18}

\* api_version: None, or a tuple of up to five components
ApiVersions ==
    {JNone} \cup {JList([i \in 1..Len(t) |-> JInt(t[i])]) :
                     t \in BoundedSeq(ApiInts, MaxLen + 2)}

\* a table row of n cells
RowOf(n) ==
    Block("TableRow",
          [i \in 1..n |->
              Block("TableCell",
                    <<Block("Para", <<Str(JStr("a")).val>>, JNone, <<>>).val>>,
                    JNone, <<>>).val],
          JNone, <<>>).val

\* rows of one to MaxArgs cells
TableRows == {RowOf(n) : n \in 1..MaxArgs}

\* the arguments of Table: the rows, header, alignment and width; a list
\* argument has up to MaxArgs + 1 entries
TableArgs ==
    {JList(<<JList(args), header, alignment, width>>) :
        args \in BoundedSeq(TableRows, MaxArgs),
        header \in {JNone} \cup {RowOf(n) : n \in 0..(MaxArgs + 1)},
        alignment \in {JNone, JList(<<JStr("Left")>>)}
                         \cup {JList([i \in 1..n |-> JStr("AlignLeft")]) :
                                  n \in 0..(MaxArgs + 1)},
        width \in {JNone} \cup {JList([i \in 1..n |-> JFloat]) :
                                   n \in 0..(MaxArgs + 1)}}

\* JSON objects with a "t" key: the key sets {t}, {t, c}, {t, x} and
\* {t, c, x}, their members already decoded
WireObjects ==
    UNION {
      {JDict(<<JItem("t", JStr(tag))>>),
       JDict(<<JItem("t", JStr(tag)), JItem("x", JList(<<>>))>>)}
        \cup UNION {
               {JDict(<<JItem("t", JStr(tag)), JItem("c", c)>>),
                JDict(<<JItem("t", JStr(tag)), JItem("c", c),
                        JItem("x", JList(<<>>))>>)} :
               c \in {JList(<<>>), JStr("a"), JList(<<Str(JStr("a")).val>>)}} :
      tag \in {"Space", "LineBreak", "Null", "Str", "Para", "Emph"}}

\* source is the call: the callee and its arguments
Calls ==
    {JDict(<<JItem("Doc", v)>>) : v \in ApiVersions}
      \cup {JDict(<<JItem("Table", v)>>) : v \in TableArgs}
      \cup {JDict(<<JItem("from_json", v)>>) : v \in WireObjects}

InitCall ==
    /\ cls = EmptyHeap.cls
    /\ parent = EmptyHeap.parent
    /\ location = EmptyHeap.location
    /\ lists = EmptyHeap.lists
    /\ dicts = EmptyHeap.dicts
    /\ last = [op |-> "init", err |-> "ok", ret |-> None]
    /\ action = <<>>
    /\ visited = <<>>
    /\ walked = NotWalked
    /\ source \in Calls
    /\ wire = JNone
    /\ decoded = NotDecoded

\* the call returns or raises
Call(op, r) ==
    /\ decoded = NotDecoded
    /\ decoded' = r
    /\ last' = [op |-> op, err |-> r.err, ret |-> None]
    /\ UNCHANGED <<cls, parent, location, lists, dicts, walkvars, source, wire>>

\* decoded = Doc(api_version=v)
ConstructDoc ==
    /\ HasKey(source, "Doc")
    /\ \E r \in {Doc(<<>>, JNone, Get(source, "Doc"))} : Call("Doc", r)

\* decoded = Table(*args, header=..., alignment=..., width=...)
ConstructTable ==
    /\ HasKey(source, "Table")
    /\ \E a \in {Get(source, "Table").l} :
          \E r \in {Table(a[1].l, a[2], JNone, a[3], a[4])} : Call("Table", r)

\* decoded = from_json(pairs)
FromJson ==
    /\ HasKey(source, "from_json")
    /\ \E r \in {from_json(Get(source, "from_json"))} : Call("from_json", r)

NextCall ==
    \/ ConstructDoc
    \/ ConstructTable
    \/ FromJson

SpecCall == InitCall /\ [][NextCall]_vars

\* ------------------------------------------------------------------------
\* elements.py: an existing Table: header assignment and writes to its rows
\* ------------------------------------------------------------------------

\* the fields of a Table element
Table_cols(node) == node.f[Len(node.f)].n

Table_rows(node) == node.f[Len(node.f) - 1].n

Table_width(node) == node.f[Len(node.f) - 2]

Table_alignment(node) == node.f[Len(node.f) - 3]

\* the table with its header row (a sequence of no or one row) replaced
Table_with_header(node, header) ==
    JElem(Node("Table", node.f, <<node.k[1], header, node.k[3]>>))

\* the table with its content replaced; rows and cols stay as __init__
\* computed them
Table_with_content(node, rows) ==
    JElem(Node("Table", node.f, <<rows, node.k[2], node.k[3]>>))

\* Table.header (setter) on an existing table: err is the exception, val the
\* table after the call; the new row is stored before its cells are counted
Table_header_setter(node, value) ==
    IF value = JNone \/ (value.j \in {"list", "str", "dict"} /\ value.l = <<>>
                          /\ value.s = "")
    THEN [err |-> "ok", val |-> Table_with_header(node, <<>>)]
    ELSE Only({
           IF cells.err # "ok" THEN [err |-> cells.err, val |-> JElem(node)]
           ELSE Only({
                  IF row.err # "ok" THEN [err |-> row.err, val |-> JElem(node)]
                  ELSE [err |-> IF Len(cells.val.l) # Table_cols(node)
                                THEN "IndexError" ELSE "ok",
                        val |-> Table_with_header(node, <<row.val.e[1]>>)] :
                  row \in {Block("TableRow", cells.val.l, JNone, <<>>)}}) :
           cells \in {IF value.j = "elem" /\ value.e[1].cls = "TableRow"
                      THEN Returned(Elems(value.e[1].k[1]))
                      ELSE Iterable(value)}})

\* table.content.insert(i, v)
Table_content_insert(node, i, v) ==
    IF check_value(v, {"TableRow"}).err # "ok"
    THEN [err |-> "TypeError", val |-> JElem(node)]
    ELSE [err |-> "ok",
          val |-> Table_with_content(
                      node, InsertAt(node.k[1],
                                     PyInsertPos(i, Len(node.k[1])), v.e[1]))]

\* del table.content[i]
Table_content_delitem(node, i) ==
    IF ~PyIndexOk(i, Len(node.k[1]))
    THEN [err |-> "IndexError", val |-> JElem(node)]
    ELSE [err |-> "ok",
          val |-> Table_with_content(
                      node, RemoveAt(node.k[1], PyIndex(i, Len(node.k[1]))))]

\* table.content[i] = v
Table_content_setitem(node, i, v) ==
    IF check_value(v, {"TableRow"}).err # "ok"
    THEN [err |-> "TypeError", val |-> JElem(node)]
    ELSE IF ~PyIndexOk(i, Len(node.k[1]))
    THEN [err |-> "IndexError", val |-> JElem(node)]
    ELSE [err |-> "ok",
          val |-> Table_with_content(
                      node,
                      [j \in 1..Len(node.k[1]) |->
                          IF j = PyIndex(i, Len(node.k[1])) + 1 THEN v.e[1]
                          ELSE node.k[1][j]])]

\* the tables the program starts from: one or two rows, with or without a
\* header of the first row's width
StartTables ==
    Built(UNION {
            {Table(args, header, JNone, JNone, JNone) :
                header \in {JNone, args[1]}} :
            args \in BoundedSeq(TableRows, MaxArgs) \ {<<>>}})

\* header values the program assigns: None, or a row of 0 to MaxArgs + 1 cells
HeaderValues == {JNone} \cup {RowOf(n) : n \in 0..(MaxArgs + 1)}

\* source is the table, wire the table before the latest call and the value
\* the call was given, decoded the outcome of the call
InitTable ==
    /\ cls = EmptyHeap.cls
    /\ parent = EmptyHeap.parent
    /\ location = EmptyHeap.location
    /\ lists = EmptyHeap.lists
    /\ dicts = EmptyHeap.dicts
    /\ last = [op |-> "init", err |-> "ok", ret |-> None]
    /\ action = <<>>
    /\ visited = <<>>
    /\ walked = NotWalked
    /\ source \in StartTables
    /\ wire = JNone
    /\ decoded = NotDecoded

\* a call on the table with argument v and outcome r
TableCall(op, v, r) ==
    /\ last' = [op |-> op, err |-> r.err, ret |-> None]
    /\ wire' = JList(<<source, v>>)
    /\ decoded' = r
    /\ source' = r.val
    /\ UNCHANGED <<cls, parent, location, lists, dicts, walkvars>>

\* table.header = v
SetHeader ==
    \E v \in HeaderValues :
       /\ source # JNone
       /\ \E r \in {Table_header_setter(source.e[1], v)} :
             TableCall("Table.header", v, r)

\* table.content.insert(i, row)
InsertRow ==
    \E i \in {0, MaxLen}, v \in TableRows :
       /\ Len(source.e[1].k[1]) < MaxLen
       /\ \E r \in {Table_content_insert(source.e[1], i, v)} :
             TableCall("insert", v, r)

\* del table.content[i]
DeleteRow ==
    \E i \in {0, -1} :
       /\ source # JNone
       /\ \E r \in {Table_content_delitem(source.e[1], i)} :
             TableCall("delitem", JInt(i), r)

\* table.content[i] = row
ReplaceRow ==
    \E i \in {0, -1}, v \in TableRows :
       /\ source # JNone
       /\ \E r \in {Table_content_setitem(source.e[1], i, v)} :
             TableCall("setitem", v, r)

NextTable ==
    \/ SetHeader
    \/ InsertRow
    \/ DeleteRow
    \/ ReplaceRow

SpecTable == InitTable /\ [][NextTable]_vars

\* ------------------------------------------------------------------------
\* Walk: what a walk is expected to visit and to return
\* ------------------------------------------------------------------------

\* the members held by the child containers of e, in _children order
RECURSIVE members_from(_, _, _)
members_from(h, e, j) ==
    IF j > Len(children(h.cls[e])) THEN <<>>
    ELSE LET obj == getattr(h, e, children(h.cls[e])[j])
         IN  (CASE obj.kind = "list" -> h.lists[obj.slot].list
                [] obj.kind = "dict" ->
                      [i \in 1..Len(h.dicts[obj.slot].dict) |->
                          h.dicts[obj.slot].dict[i][2]]
                [] OTHER -> <<>>)
             \o members_from(h, e, j + 1)

\* the nodes of the tree rooted at e, every descendant before its ancestor
\* and siblings left to right
RECURSIVE PostOrder(_, _)
RECURSIVE PostOrderAll(_, _)
PostOrderAll(h, es) ==
    IF es = <<>> THEN <<>>
    ELSE PostOrder(h, Head(es)) \o PostOrderAll(h, Tail(es))

PostOrder(h, e) == PostOrderAll(h, members_from(h, e, 1)) \o <<e>>

\* what one member contributes to its container's walk: itself when action
\* answers None, else the returned node or the returned nodes
normalized(act, m) == IF act[m] = PyNone THEN <<m>> ELSE act[m].val

\* the concatenation, in member order, of the members' contributions
RECURSIVE Flattened(_, _)
Flattened(act, es) ==
    IF es = <<>> THEN <<>>
    ELSE normalized(act, Head(es)) \o Flattened(act, Tail(es))

\* the (key, walked value) pairs of a keyed container, [] answers dropped
RECURSIVE KeptPairs(_, _)
KeptPairs(act, d) ==
    IF d = <<>> THEN <<>>
    ELSE LET k == Head(d)[1]
             v == Head(d)[2]
             r == IF act[v] = PyNone THEN Elem(v) ELSE act[v]
         IN  (IF r = PyList(<<>>) THEN <<>> ELSE <<<<k, r>>>>)
             \o KeptPairs(act, Tail(d))

\* C2: walking an element invokes action once on every node of its tree,
\* descendants before ancestors and siblings left to right (for
\* Para(Str a, Emph(Str b)): Str a, Str b, Emph, Para)
C2_WalkPostOrder ==
    [][walked'.op = "Element.walk" =>
          /\ walked'.err = "ok"
          /\ visited' = PostOrder(Heap, walked'.at)]_vars

\* C3: walking an ordered container returns the concatenation, in member
\* order, of what each member contributes: itself, its replacement, nothing
\* when deleted, or the spliced nodes
C3_ListWalkConcatenates ==
    [][walked'.op = "ListContainer.walk" =>
          /\ walked'.err = "ok"
          /\ walked'.ret =
                PyList(Flattened(action,
                                 lists[<<walked'.at, walked'.attr>>].list))]_vars

\* C4: walking an element that owns child containers replaces each container
\* by the walk of its members, then invokes action on the element, and
\* returns the element (or what action answered)
C4_WalkWritesBack ==
    [][(walked'.op = "Element.walk"
          /\ <<walked'.at, "_content">> \in DOMAIN lists
          /\ children(cls[walked'.at]) # <<>>) =>
          /\ walked'.err = "ok"
          /\ lists'[<<walked'.at, "_content">>].list =
                Flattened(action, lists[<<walked'.at, "_content">>].list)
          /\ visited' # <<>>
          /\ visited'[Len(visited')] = walked'.at
          /\ walked'.ret = (IF action[walked'.at] = PyNone
                            THEN Elem(walked'.at) ELSE action[walked'.at])]_vars

\* C5: walking a keyed container returns, in insertion order, exactly the
\* (key, walked value) pairs whose walked value is not the empty list
C5_DictWalkKeepsNonEmpty ==
    [][walked'.op = "DictContainer.walk" =>
          /\ walked'.err = "ok"
          /\ walked'.ret =
                [kind |-> "pairs",
                 val |-> KeptPairs(action,
                                   dicts[<<walked'.at, walked'.attr>>].dict)]]_vars

\* ------------------------------------------------------------------------
\* Codec: round trips and the encoding of enum values
\* ------------------------------------------------------------------------

\* the JSON objects of a wire value that carry an enum value under 't'
RECURSIVE EnumObjects(_)
EnumObjects(value) ==
    (IF /\ value.j = "dict"
        /\ HasKey(value, "t")
        /\ Get(value, "t").j = "str"
        /\ Get(value, "t").s \in SPECIAL_ELEMENTS
     THEN {value} ELSE {})
      \cup UNION {EnumObjects(value.l[i]) : i \in 1..Len(value.l)}

\* C6: decoding the encoding of an element that is not a document succeeds
\* and yields an element of the same kind with the same children, the same
\* scalar fields and the same attribute order
C6_RoundTripPerKind ==
    (source.e[1].cls # "Doc" /\ decoded # NotDecoded)
        => /\ decoded.err = "ok"
           /\ decoded.val = source

\* C7: decoding the encoding of a document, legacy or versioned, yields a
\* document with the same blocks, the same metadata and the same api_version
C7_DocRoundTrip ==
    (source.e[1].cls = "Doc" /\ decoded # NotDecoded)
        => /\ decoded.err = "ok"
           /\ decoded.val.j = "elem"
           /\ decoded.val.e[1].cls = "Doc"
           /\ decoded.val.e[1].k[1] = source.e[1].k[1]
           /\ decoded.val.e[1].k[2] = source.e[1].k[2]
           /\ decoded.val.e[1].f = source.e[1].f

\* C8: in the encoding of a document every enum value v is written {"t": v}
\* when the document's api_version is set and {"t": v, "c": []} when it is
\* absent
C8_EnumEncodingFollowsApiVersion ==
    (source.e[1].cls = "Doc" /\ wire # JNone)
        => \A d \in EnumObjects(wire) :
              IF source.e[1].f[1] # JNone
              THEN d = enum_to_json(Get(d, "t"))
              ELSE d = enum_to_json_legacy(Get(d, "t"))

\* ------------------------------------------------------------------------
\* Slices, index and siblings
\* ------------------------------------------------------------------------

\* C11: slicing an ordered container c succeeds and returns a new ordered
\* container with exactly the selected members in order and with c's allowed
\* kinds, owner and location (so that a read through the slice attaches to
\* c's owner); c itself is unchanged
C11_SliceIsNewContainer ==
    [][\A slot \in NavSlots, lo \in SliceLo, hi \in SliceHi :
          ( /\ last'.op = "getslice"
            /\ Do("getslice", ListContainer_getslice(Heap, slot, lo, hi)) )
          => /\ last'.err = "ok"
             /\ SliceSlot \in DOMAIN lists'
             /\ lists'[SliceSlot].list = PySlice(lists[slot].list, lo, hi)
             /\ lists'[SliceSlot].oktypes = lists[slot].oktypes
             /\ lists'[SliceSlot].parent = lists[slot].parent
             /\ lists'[SliceSlot].location = lists[slot].location
             /\ slot # SliceSlot => lists'[slot] = lists[slot]
      ]_vars

\* the index call on e takes effect
IndexCall(e) ==
    \E r \in {Element_index(Heap, e)} :
       Do("index", Outcome(r.err, r.h, PyInt(r.ret)))

\* the offset call on e takes effect
OffsetCall(e, n) ==
    \E r \in {Element_offset(Heap, e, n)} :
       Do("offset", Outcome(r.err, r.h, PyElem(r.ret)))

\* the containers e is a member of
Owners(e) == {slot \in DOMAIN lists : Positions(lists[slot].list, e) # {}}

\* C19: index never raises; for a member of a container it returns a position
\* i with container[i] the node, and for a node that is in no container
\* (never inserted, or read and then removed) it returns None
C19_IndexIsPosition ==
    [][\A e \in NavNodes :
          (last'.op = "index" /\ IndexCall(e))
          => /\ last'.err = "ok"
             /\ IF Owners(e) = {} THEN last'.ret = None
                ELSE \E slot \in Owners(e) :
                        \E i \in Positions(lists[slot].list, e) :
                           last'.ret = ToString(i)
      ]_vars

\* C20: for a node at position i of an ordered container c, offset(n) is the
\* member at position i + n when 0 <= i + n < len(c) and None otherwise; a
\* node in no container gets None for every n
C20_OffsetIsSibling ==
    [][\A e \in NavNodes, n \in Offsets :
          (last'.op = "offset" /\ OffsetCall(e, n))
          => /\ last'.err = "ok"
             /\ Owners(e) = {} => last'.ret = None
             /\ \A slot \in Owners(e) :
                   ( /\ Owners(e) = {slot}
                     /\ Cardinality(Positions(lists[slot].list, e)) = 1 )
                   => LET i == Min(Positions(lists[slot].list, e))
                      IN  last'.ret =
                             IF 0 <= i + n /\ i + n < Len(lists[slot].list)
                             THEN lists[slot].list[i + n + 1]
                             ELSE None
      ]_vars

\* ------------------------------------------------------------------------
\* Metadata coercion
\* ------------------------------------------------------------------------

\* the Metadata-value node a written value is to be stored as
RECURSIVE Coerced(_)
Coerced(v) ==
    CASE v.j = "bool" -> JElem(Node("MetaBool", <<v>>, <<>>))
      [] v.j = "int" -> JElem(Node("MetaString", <<JStr(ToString(v.n))>>, <<>>))
      [] v.j = "str" -> JElem(Node("MetaString", <<v>>, <<>>))
      [] v.j = "list" -> MetaList_of([i \in 1..Len(v.l) |-> Coerced(v.l[i])])
      [] v.j = "dict" ->
            MetaMap_of([i \in 1..Len(v.l) |->
                           JItem(v.l[i].s, Coerced(v.l[i].l[1]))])
      [] v.j = "elem" /\ "Block" \in Mro(v.e[1].cls) ->
            JElem(Node("MetaBlocks", <<>>, <<<<v.e[1]>>>>))
      [] v.j = "elem" /\ "Inline" \in Mro(v.e[1].cls) ->
            JElem(Node("MetaInlines", <<>>, <<<<v.e[1]>>>>))
      [] OTHER -> v

\* the positions of the metadata container that last.ret names
WrittenAt ==
    IF source.e[1].cls = "MetaMap"
    THEN {i \in 1..Len(source.e[1].f) : source.e[1].f[i].s = last.ret}
    ELSE {i \in 1..Len(source.e[1].k[1]) : ToString(i - 1) = last.ret}

\* the write succeeded and the container holds the coerced node at the
\* written key or index
StoredCoerced ==
    /\ decoded.err = "ok"
    /\ WrittenAt # {}
    /\ \A i \in WrittenAt : JElem(source.e[1].k[1][i]) = Coerced(wire)

\* C12: m[k] = v on a metadata map with v a boolean, a number, a list, a
\* mapping, a block or an inline succeeds and stores the coerced node under
\* k (True -> MetaBool, [1, "x"] -> MetaList of two MetaString)
C12_AssignmentCoerces ==
    ( /\ last.op = "MetaMap.__setitem__"
      /\ \/ wire.j \in {"bool", "int", "list", "dict"}
         \/ wire.j = "elem" /\ Mro(wire.e[1].cls) \cap {"Block", "Inline"} # {} )
    => StoredCoerced

\* native values whose coercion involves no str
PlainNatives ==
    {v \in MetaInputs : v.j \in {"bool", "int"}}
      \cup {v \in MetaInputs :
              /\ v.j \in {"list", "dict"}
              /\ \A i \in 1..Len(v.l) :
                    (IF v.j = "dict" THEN v.l[i].l[1] ELSE v.l[i]).j
                       \in {"bool", "int"}}

\* C13: every write of a native boolean, number, list or mapping into a
\* metadata container (construction, item assignment, append, the content
\* container, the content setter, Doc.metadata) succeeds and stores the
\* coerced node
C13_EveryWriteCoerces ==
    ( /\ last.op \in {"MetaMap", "MetaList", "MetaMap.__setitem__",
                      "MetaList.__setitem__", "MetaList.append",
                      "DictContainer.__setitem__", "MetaMap.content",
                      "Doc.metadata"}
      /\ wire \in PlainNatives
      /\ last.op = "MetaList.__setitem__" => WrittenAt # {} )
    => StoredCoerced

\* ------------------------------------------------------------------------
\* Validation at construction and at decoding
\* ------------------------------------------------------------------------

\* C14: Doc(api_version=v) succeeds exactly when v is None or a tuple of
\* exactly three non-negative integers greater than (1, 17, 0), and then
\* stores v; every other shape (two, four, five components) is rejected
C14_ApiVersionShape ==
    last.op = "Doc"
    => LET v == Get(source, "Doc")
           valid ==
              \/ v = JNone
              \/ /\ Len(v.l) = 3
                 /\ \A i \in 1..3 : v.l[i].n >= 0
                 /\ \/ v.l[1].n > 1
                    \/ v.l[1].n = 1 /\ v.l[2].n > 17
                    \/ v.l[1].n = 1 /\ v.l[2].n = 17 /\ v.l[3].n > 0
       IN  /\ decoded.err = "ok" <=> valid
           /\ decoded.err = "ok" => decoded.val.e[1].f[1] = v

\* C15: Table(*rows, header, alignment, width) on a table of cols columns
\* (the cells of the first row) raises IndexError when the header row, the
\* alignment list or the width list has a number of entries other than cols;
\* otherwise it succeeds, alignment defaulting to AlignDefault and width to
\* 0.0 per column
C15_TableColumnCounts ==
    ( /\ last.op = "Table"
      /\ Get(source, "Table").l[1].l # <<>>
      /\ Get(source, "Table").l[3] # JList(<<JStr("Left")>>) )
    => LET a == Get(source, "Table").l
           cols == Len(a[1].l[1].e[1].k[1])
           Mismatch(x) == x # JNone /\ Len(x.l) # cols
           node == decoded.val.e[1]
       IN  IF \/ a[2] # JNone /\ Len(a[2].e[1].k[1]) # cols
              \/ Mismatch(a[3])
              \/ Mismatch(a[4])
           THEN decoded.err = "IndexError"
           ELSE /\ decoded.err = "ok"
                /\ node.f[Len(node.f) - 3] =
                      IF a[3] = JNone
                      THEN JList([i \in 1..cols |-> JStr("AlignDefault")])
                      ELSE a[3]
                /\ node.f[Len(node.f) - 2] =
                      IF a[4] = JNone THEN JList([i \in 1..cols |-> JFloat])
                      ELSE a[4]

\* a table of two columns given three alignments (and no header or widths)
\* was rejected
C15_Witness ==
    /\ last.op = "Table"
    /\ LET a == Get(source, "Table").l
       IN  /\ a[1].l # <<>>
           /\ Len(a[1].l[1].e[1].k[1]) = 2
           /\ a[2] = JNone
           /\ a[3] = JList(<<JStr("AlignLeft"), JStr("AlignLeft"),
                             JStr("AlignLeft")>>)
           /\ a[4] = JNone
    /\ decoded.err = "IndexError"

\* C16: from_json on an object with a "t" key yields a node only if the keys
\* are exactly {t} for a payload-less kind and exactly {t, c} for any other
\* kind, and raises AssertionError for every other set of keys
C16_KeyCardinality ==
    last.op = "from_json"
    => LET data == Get(source, "from_json")
           keys == {data.l[i].s : i \in 1..Len(data.l)}
           wellformed ==
              IF Get(data, "t").s \in EMPTY_ELEMENTS THEN keys = {"t"}
              ELSE keys = {"t", "c"}
       IN  /\ decoded.err = "ok" => wellformed
           /\ ~wellformed => decoded.err = "AssertionError"

\* ------------------------------------------------------------------------
\* Ownership
\* ------------------------------------------------------------------------

\* the places where node n is held: positions of ordered containers and
\* items of keyed containers
Memberships(n) ==
    {m \in (DOMAIN lists) \X (1..MaxLen + MaxArgs) :
        m[2] <= Len(lists[m[1]].list) /\ lists[m[1]].list[m[2]] = n}
      \cup {m \in (DOMAIN dicts) \X (1..MaxLen + MaxArgs) :
              m[2] <= Len(dicts[m[1]].dict) /\ dicts[m[1]].dict[m[2]][2] = n}

\* C17: a node that is not a member of any container (never inserted, or
\* removed by deletion or by content replacement) has parent None
C17_NonMembersHaveNoParent ==
    \A n \in Made(Heap) : Memberships(n) = {} => parent[n] = None

\* C18: no node is a member of two containers, or twice a member of one
C18_ExclusiveOwnership ==
    \A n \in Made(Heap) : Cardinality(Memberships(n)) <= 1

\* ------------------------------------------------------------------------
\* Ancestors
\* ------------------------------------------------------------------------

\* the ancestor call on e takes effect
AncestorCall(e, n) ==
    \E r \in {Element_ancestor(Heap, e, n)} : Do("ancestor", r)

\* the node reached from e by following parent k times; None when the chain
\* ends before
RECURSIVE Up(_, _)
Up(e, k) == IF k = 0 \/ e = None THEN e ELSE Up(parent[e], k - 1)

\* C21: ancestor(n) with n >= 1 returns the node reached by following parent
\* n times, or None when the chain ends before; with n < 1 it raises
\* TypeError and returns nothing
C21_AncestorFollowsParent ==
    [][\A e \in NavNodes \cup {"b"}, n \in Depths :
          (last'.op = "ancestor" /\ AncestorCall(e, n))
          => IF n < 1 THEN last'.err = "TypeError" /\ last'.ret = None
             ELSE last'.err = "ok" /\ last'.ret = Up(e, n)
      ]_vars

\* the paragraph was returned as an ancestor while b is attached to emph and
\* emph to the paragraph
C21_Witness ==
    /\ last.op = "ancestor"
    /\ last.err = "ok"
    /\ last.ret = "para"
    /\ parent["b"] = "emph"
    /\ parent["emph"] = "para"

\* ------------------------------------------------------------------------
\* Walk over several child containers
\* ------------------------------------------------------------------------

\* C22: walking a node of a kind with several child-holding attributes (Doc,
\* Table, Cite) walks the content container first, then the secondary
\* containers in the kind's attribute order, and invokes action on the node
\* last
C22_ContentWalkedFirst ==
    [][( /\ walked'.op = "Element.walk"
         /\ cls[walked'.at] \in {"Doc", "Table", "Cite"} )
       => /\ \A c \in {"Doc", "Table", "Cite"} : children(c)[1] = "content"
          /\ walked'.err = "ok"
          /\ visited' = PostOrder(Heap, walked'.at)]_vars

\* ------------------------------------------------------------------------
\* Failed writes
\* ------------------------------------------------------------------------

\* C23: an insert, index assignment, extend or content assignment that
\* raises TypeError for a value outside the allowed kinds leaves every
\* ordered container with the members it had, in the same order
C23_FailedWriteChangesNothing ==
    [][( /\ last'.op \in {"insert", "setitem", "extend", "content"}
         /\ last'.err = "TypeError" )
       => \A slot \in DOMAIN lists :
             /\ slot \in DOMAIN lists'
             /\ lists'[slot].list = lists[slot].list]_vars

\* ------------------------------------------------------------------------
\* Tables
\* ------------------------------------------------------------------------

\* C24: assigning to a table a header row whose number of cells differs from
\* the table's column count raises, and the table's header is then the
\* header it had before
C24_FailedHeaderKeepsHeader ==
    ( /\ last.op = "Table.header"
      /\ wire.l[2] # JNone
      /\ Len(wire.l[2].e[1].k[1]) # Table_cols(wire.l[1].e[1]) )
    => /\ decoded.err # "ok"
       /\ source.e[1].k[2] = wire.l[1].e[1].k[2]

\* C25: the rows field of a table is the number of its rows, every row and
\* the header when there is one have cols cells, and there are cols
\* alignments and cols widths
C25_TableGeometry ==
    LET t == source.e[1]
    IN  /\ Table_rows(t) = Len(t.k[1])
        /\ \A i \in 1..Len(t.k[1]) : Len(t.k[1][i].k[1]) = Table_cols(t)
        /\ \A i \in 1..Len(t.k[2]) : Len(t.k[2][i].k[1]) = Table_cols(t)
        /\ Len(Table_alignment(t).l) = Table_cols(t)
        /\ Len(Table_width(t).l) = Table_cols(t)

\* ------------------------------------------------------------------------
\* Parent chains
\* ------------------------------------------------------------------------

\* C26: whatever nodes were constructed, inserted into containers that accept
\* them and read back, the parent chain of every node is acyclic: the doc
\* lookup returns, and what it returns is a Doc or None
C26_DocLookupTerminates ==
    \A e \in Made(Heap) :
       \A r \in {Element_doc(Heap, e, Cardinality(Made(Heap)))} :
          /\ r.err # "diverges"
          /\ r.err = "ok" => (r.ret = None \/ cls[r.ret] = "Doc")

====
